---- MODULE Spec2Model ----
(***************************************************************************)
(* Coin-day reward accrual of the rELP token (contracts/relp) and of the   *)
(* reward ledgers it drives (contracts/reward and the "additional"         *)
(* contract that keeps the ELC increase-reward stream).                    *)
(*                                                                         *)
(* One external call is one action.  A call that returns Err or that traps *)
(* (assert!, index out of bounds, division by zero, checked arithmetic)    *)
(* commits nothing: the handler is computed on a record of the contracts'  *)
(* storage and the record is written back only when its err is "ok".       *)
(*                                                                         *)
(* u128 values are modelled by integers.  A build without overflow checks  *)
(* wraps modulo 2^128; a wrapped value 2^128 - d is represented by -d,     *)
(* which is exact for +, - and *.  Comparing such a value treats it as     *)
(* larger than every small value; dividing it is outside the integers TLC  *)
(* can hold and ends the call with err "beyond" (BeyondNeverHappens shows  *)
(* that no reachable call does that).                                      *)
(*                                                                         *)
(* Spec runs the messages from the constructors' state.  SpecFn applies    *)
(* one mint, burn or transfer to storage drawn from small sets, ledgers    *)
(* longer than the inline limit among them.                                *)
(* SpecSeal runs mint and update_block_awards from the constructors' state *)
(* on a clock that also stops beside the points of the interval grid.      *)
(* SpecLiq applies manual liquidations to drawn storage whose ledgers      *)
(* may be longer than the liquidation limit.                               *)
(* SpecLong applies them to one holder with a ledger of a hundred epochs.   *)
(* SpecToken runs the token messages of RELP, transfer_from and approve    *)
(* among them, with every account as a caller.                             *)
(* SpecReward and SpecElc run the messages of the Reward contract and of   *)
(* the ELC token by themselves, with every account as a caller.            *)
(* SpecGovern runs the messages of the Govern contract (contracts/govern)  *)
(* on a RELP whose owner it is, block by block.                            *)
(***************************************************************************)
EXTENDS Integers, Sequences, FiniteSets, TLC

\* ------------------------------------------------------------------ bounds
MaxTicks == 2          \* block timestamps run from 0 to MaxTicks * Interval
MaxCalls == 4          \* calls that change storage in one run
MaxSupply == 3         \* rELP minted in total at any one time
DailyAmount == 100     \* daily_award.0 set by the owner before the first mint
FnMaxEpochs == 7       \* longest award ledger SpecFn draws
FnMaxSupply == 100     \* rELP minted in total in SpecFn
SealMaxTicks == 3      \* block timestamps of SpecSeal run up to SealMaxTicks * Interval
LiqMaxEpochs == 52     \* longest award ledger SpecLiq draws

\* ------------------------------------------------------- program constants
Interval == 1800 * 1000          \* two block awards are half an hour apart
E8 == 100000000                  \* 1e8 as u128
InlineLimit == 5                 \* periods folded by one inline settle
LiquidateLimit == 50             \* periods folded by one manual liquidation
DecayNum == 99
DecayDen == 100

\* ------------------------------------------------------------------ inputs
Amounts == {1}                   \* amount of a mint, a burn or a transfer
ElcAmounts == {1}                \* elc_amount of update_increase_awards

FnAmounts == {1, 30, 50}         \* amount of a mint, a burn or a transfer in SpecFn
FnBalances == {0, 50}            \* balance of the holder SpecFn starts with

Accounts == {"a1", "a2"}
Deployer == "a1"                 \* caller of the constructors
Callers == {Deployer}            \* callers of the owner-gated messages

VARIABLES
    now,              \* env().block_timestamp()
    overflow_checks,  \* the build profile: TRUE traps on overflow, FALSE wraps
    owner,            \* RELP.owner
    total_supply,     \* RELP.total_supply
    balances,         \* RELP.balances
    reward,           \* storage of the Reward contract (block-reward stream)
    additional,       \* storage of the Additional contract (increase-reward stream)
    lock_infos,       \* RELP.lock_infos: user -> <<block_number, lock_balance>>
    allowances,       \* RELP.allowances: <<owner, spender>> -> amount
    govern,           \* storage of the Govern contract
    block_number,     \* env().block_number()
    elc,              \* storage of the ELC contract: balances and total supply
    last,             \* the last external call and how it ended
    calls             \* number of calls that changed storage so far

vars == <<now, overflow_checks, owner, total_supply, balances, lock_infos,
          allowances, govern, block_number, reward, additional, elc, last,
          calls>>

\* --------------------------------------------------------------- arithmetic
\* floor(a * b / c) for a, b >= 0 and 0 < c < 2^27, computed three bits of b
\* at a time so that no intermediate value leaves TLC's 32-bit integers:
\* <<quotient, remainder>>.
RECURSIVE MulDivQR(_, _, _)
MulDivQR(a, b, c) ==
    IF b = 0 THEN <<0, 0>>
    ELSE LET h == MulDivQR(a, b \div 8, c)
             d == b % 8
             t == 8 * h[2] + d * (a % c)
             q == 8 * h[1] + d * (a \div c)
         IN  <<q + (t \div c), t % c>>

MulDiv(a, b, c) == MulDivQR(a, b, c)[1]

\* a < b on u128, where a negative integer stands for a wrapped (huge) value
ULt(a, b) ==
    IF (a < 0) = (b < 0) THEN a < b ELSE b < 0

\* a - b underflows on u128
Underflows(a, b) == ULt(a, b)

RECURSIVE SumOver(_, _)
SumOver(f, S) ==
    IF S = {} THEN 0
    ELSE LET x == CHOOSE y \in S : TRUE
         IN  f[x] + SumOver(f, S \ {x})

Max(a, b) == IF a >= b THEN a ELSE b
Min(a, b) == IF a <= b THEN a ELSE b

\* ------------------------------------------- Reward / Additional storage
Coinday(amount, timestamp, last_index) ==
    [amount |-> amount, timestamp |-> timestamp, last_index |-> last_index]

Award(amount, total_coinday, timestamp) ==
    [amount |-> amount, total_coinday |-> total_coinday, timestamp |-> timestamp]

reward_of(c, user) == c.rewards[user]

awards_length(c) == Len(c.awards)

\* awards[index]; the caller checks index < awards_length (the Vec traps otherwise)
get_award(c, index) == c.awards[index + 1]

get_coinday_info(c, user) ==
    IF user \in DOMAIN c.coindays
    THEN c.coindays[user]
    ELSE Coinday(0, now, 0)

update_total_reward(c, new_value) == [c EXCEPT !.total_reward = new_value]

update_rewards(c, user, value) == [c EXCEPT !.rewards[user] = value]

update_total_coinday(c, new_value) == [c EXCEPT !.total_coinday = new_value]

\* mutant: the coin-days given are added to the coin-days stored
update_coindays_AddAmount(c, user, coinday, timestamp, index) ==
    [c EXCEPT !.coindays =
        [u \in (DOMAIN @) \cup {user} |->
            IF u = user
            THEN Coinday(coinday + (IF u \in DOMAIN @ THEN @[u].amount ELSE 0),
                         timestamp, index)
            ELSE @[u]]]

update_coindays(c, user, coinday, timestamp, index) ==
    [c EXCEPT !.coindays =
        [u \in (DOMAIN @) \cup {user} |->
            IF u = user THEN Coinday(coinday, timestamp, index) ELSE @[u]]]

\* mutant: the new epoch is put at the head of the ledger
update_awards_AtHead(c, amount, total_coinday, timestamp) ==
    [c EXCEPT !.awards = <<Award(amount, total_coinday, timestamp)>> \o @]

update_awards(c, amount, total_coinday, timestamp) ==
    [c EXCEPT !.awards = Append(@, Award(amount, total_coinday, timestamp))]

update_daily_award(c, new_amount) == [c EXCEPT !.daily_award = new_amount]

\* The Additional contract keeps the increase-reward stream behind the same
\* messages as Reward; its append refuses an epoch without coin-days.
add_update_awards_ok(total_coinday) == total_coinday # 0

\* ------------------------------------------------------------ ELC storage
elc_mint(e, user, amount) ==
    [e EXCEPT !.balances[user] = @ + amount, !.total_supply = @ + amount]

\* ------------------------------------------------- storage during one call
\* The storage the call works on; err and the return values live beside it.
St ==
    [total_supply |-> total_supply, balances |-> balances,
     lock_infos |-> lock_infos, allowances |-> allowances,
     reward |-> reward,
     additional |-> additional, elc |-> elc,
     err |-> "ok", ret |-> <<0, 0>>, dec |-> 0]

Fail(s, e) == [s EXCEPT !.err = e]

balance_of(s, user) == s.balances[user]

lock_info_of(s, user) == s.lock_infos[user]

only_owner(s, caller) ==
    IF s.err = "ok" /\ caller # owner THEN Fail(s, "OnlyOwnerAccess") ELSE s

\* mutant: the coin-days of every epoch are taken at the time of the call
RECURSIVE settle_loop_AtNow(_, _, _, _, _, _)
settle_loop_AtNow(c, coinday_info, balance, i, n, scale) ==
    IF i >= n THEN [status |-> "ok", amount |-> 0]
    ELSE LET cur_award == get_award(c, i)
             coinday_i == coinday_info.amount
                          + balance * (now - coinday_info.timestamp)
             rest == settle_loop_AtNow(c, coinday_info, balance, i + 1, n, scale)
         IN  IF cur_award.total_coinday = 0 \/ rest.status = "panic"
             THEN [status |-> "panic", amount |-> 0]
             ELSE [status |-> "ok",
                   amount |-> MulDiv(coinday_i, cur_award.amount * scale,
                                     cur_award.total_coinday) + rest.amount]

\* One turn of the settle loop, for the epoch cur_award:
\* coinday_i = amount + balance * (award.timestamp - timestamp),
\* coinday_i * award.amount * scale / award.total_coinday.
settle_term(cur_award, coinday_info, balance, scale) ==
    LET coinday_i == coinday_info.amount
                     + balance * (cur_award.timestamp - coinday_info.timestamp)
        status ==
            IF overflow_checks
               /\ Underflows(cur_award.timestamp, coinday_info.timestamp)
            THEN "panic"
            ELSE IF cur_award.total_coinday = 0 THEN "panic"
            ELSE IF coinday_i < 0 \/ cur_award.total_coinday < 0 THEN "beyond"
            ELSE "ok"
    IN  [status |-> status,
         amount |-> IF status = "ok"
                    THEN MulDiv(coinday_i, cur_award.amount * scale,
                                cur_award.total_coinday)
                    ELSE 0]

\* The settle loop over awards[i .. n-1] of store c: the sum of its turns, and
\* a trap if one of them traps.  The range is folded by halves, so that a
\* ledger of LiquidateLimit epochs and more is summed at a small depth.
RECURSIVE settle_loop(_, _, _, _, _, _)
settle_loop(c, coinday_info, balance, i, n, scale) ==
    IF i >= n THEN [status |-> "ok", amount |-> 0]
    ELSE IF n = i + 1
    THEN settle_term(get_award(c, i), coinday_info, balance, scale)
    ELSE LET m == (i + n) \div 2
             head == settle_loop(c, coinday_info, balance, i, m, scale)
             rest == settle_loop(c, coinday_info, balance, m, n, scale)
         IN  IF head.status = "panic" \/ rest.status = "panic"
             THEN [status |-> "panic", amount |-> 0]
             ELSE IF head.status = "beyond" \/ rest.status = "beyond"
             THEN [status |-> "beyond", amount |-> 0]
             ELSE [status |-> "ok", amount |-> head.amount + rest.amount]

\* ---------------------------------------------- increase-reward (ELC) stream
\* mutant: the backlog limit does not look at the balance
get_elc_reward_AnyBalance(s, user) ==
    LET balance == balance_of(s, user)
        coinday_info == get_coinday_info(s.additional, user)
        length == awards_length(s.additional)
        index == coinday_info.last_index
        loop == settle_loop(s.additional, coinday_info, balance, index, length, E8)
        elc_amount == loop.amount
    IN  IF s.err # "ok" THEN s
        ELSE IF index > length /\ overflow_checks THEN Fail(s, "panic")
        ELSE IF index > length \/ length - index > InlineLimit
        THEN Fail(s, "NeedLiquidateIncreaseReward")
        ELSE IF loop.status # "ok" THEN Fail(s, loop.status)
        ELSE IF elc_amount > 0
        THEN [s EXCEPT
                !.additional = update_rewards(@, user,
                                   elc_amount + reward_of(@, user)),
                !.elc = elc_mint(@, user, elc_amount),
                !.ret = <<now, length>>]
        ELSE [s EXCEPT !.ret = <<now, length>>]

get_elc_reward(s, user) ==
    LET balance == balance_of(s, user)
        coinday_info == get_coinday_info(s.additional, user)
        length == awards_length(s.additional)
        index == coinday_info.last_index
        loop == settle_loop(s.additional, coinday_info, balance, index, length, E8)
        elc_amount == loop.amount
    IN  IF s.err # "ok" THEN s
        ELSE IF index > length /\ overflow_checks THEN Fail(s, "panic")
        ELSE IF (index > length \/ length - index > InlineLimit) /\ balance # 0
        THEN Fail(s, "NeedLiquidateIncreaseReward")
        ELSE IF loop.status # "ok" THEN Fail(s, loop.status)
        ELSE IF elc_amount > 0
        THEN [s EXCEPT
                !.additional = update_rewards(@, user,
                                   elc_amount + reward_of(@, user)),
                !.elc = elc_mint(@, user, elc_amount),
                !.ret = <<now, length>>]
        ELSE [s EXCEPT !.ret = <<now, length>>]

decrease_coinday_elc(s, user, value, now_time, index) ==
    LET balance == balance_of(s, user)
        coinday_info == get_coinday_info(s.additional, user)
        cur_coinday == coinday_info.amount
                       + balance * (now_time - coinday_info.timestamp)
        decrease_coinday == MulDiv(cur_coinday, MulDiv(value, E8, balance), E8)
        new_coinday == cur_coinday - decrease_coinday
    IN  IF s.err # "ok" THEN s
        ELSE IF overflow_checks /\ Underflows(now_time, coinday_info.timestamp)
        THEN Fail(s, "panic")
        ELSE IF balance = 0 THEN Fail(s, "panic")
        ELSE IF cur_coinday < 0 THEN Fail(s, "beyond")
        ELSE IF overflow_checks /\ Underflows(cur_coinday, decrease_coinday)
        THEN Fail(s, "panic")
        ELSE [s EXCEPT
                !.additional = update_coindays(@, user, new_coinday, now_time, index),
                !.dec = decrease_coinday]

increase_coinday_elc(s, user, now_time, index) ==
    LET balance == balance_of(s, user)
        coinday_info == get_coinday_info(s.additional, user)
        new_coinday == coinday_info.amount
                       + balance * (now_time - coinday_info.timestamp)
    IN  IF s.err # "ok" THEN s
        ELSE IF overflow_checks /\ Underflows(now_time, coinday_info.timestamp)
        THEN Fail(s, "panic")
        ELSE [s EXCEPT
                !.additional = update_coindays(@, user, new_coinday, now_time, index)]

update_total_elc(s, timestamp, decrease) ==
    LET total_info == s.additional.total_coinday
        increase_coinday == s.total_supply * (timestamp - total_info[2])
        new_total_coinday == total_info[1] + increase_coinday - decrease
    IN  IF s.err # "ok" THEN s
        ELSE IF overflow_checks
                /\ (\/ Underflows(timestamp, total_info[2])
                    \/ Underflows(total_info[1] + increase_coinday, decrease))
        THEN Fail(s, "panic")
        ELSE [s EXCEPT
                !.additional = update_total_coinday(@, <<new_total_coinday, timestamp>>)]

\* ------------------------------------------------- block-reward (ELP) stream
\* mutant: the settle loop starts at the first epoch, not at last_index
get_elp_reward_FromStart(s, user) ==
    LET balance == balance_of(s, user)
        coinday_info == get_coinday_info(s.reward, user)
        length == awards_length(s.reward)
        loop == settle_loop(s.reward, coinday_info, balance, 0, length, 1)
        elp_amount == loop.amount
    IN  IF s.err # "ok" THEN s
        ELSE IF loop.status # "ok" THEN Fail(s, loop.status)
        ELSE IF elp_amount > 0
        THEN [s EXCEPT
                !.reward = update_rewards(@, user, elp_amount + reward_of(@, user)),
                !.ret = <<now, length>>]
        ELSE [s EXCEPT !.ret = <<now, length>>]

\* mutant: the settled amount replaces the recorded reward
get_elp_reward_Overwrite(s, user) ==
    LET daily_award == s.reward.daily_award
        \* the award clock starts at the first mint
        r0 == IF s.total_supply = 0 /\ s.reward.deploy_time = daily_award[2]
              THEN update_daily_award(s.reward, <<daily_award[1], now>>)
              ELSE s.reward
        balance == balance_of(s, user)
        coinday_info == get_coinday_info(r0, user)
        length == awards_length(r0)
        index == coinday_info.last_index
        loop == settle_loop(r0, coinday_info, balance, index, length, 1)
        elp_amount == loop.amount
    IN  IF s.err # "ok" THEN s
        ELSE IF index > length /\ overflow_checks THEN Fail(s, "panic")
        ELSE IF (index > length \/ length - index > InlineLimit) /\ balance # 0
        THEN Fail(s, "NeedLiquidateIncreaseReward")
        ELSE IF loop.status # "ok" THEN Fail(s, loop.status)
        ELSE IF elp_amount > 0
        THEN [s EXCEPT
                !.reward = update_rewards(r0, user, elp_amount),
                !.ret = <<now, length>>]
        ELSE [s EXCEPT !.reward = r0, !.ret = <<now, length>>]

\* mutant: the award clock is restarted whatever the total supply is
get_elp_reward_AnySupply(s, user) ==
    LET daily_award == s.reward.daily_award
        \* the award clock starts at the first mint
        r0 == IF s.reward.deploy_time = daily_award[2]
              THEN update_daily_award(s.reward, <<daily_award[1], now>>)
              ELSE s.reward
        balance == balance_of(s, user)
        coinday_info == get_coinday_info(r0, user)
        length == awards_length(r0)
        index == coinday_info.last_index
        loop == settle_loop(r0, coinday_info, balance, index, length, 1)
        elp_amount == loop.amount
    IN  IF s.err # "ok" THEN s
        ELSE IF index > length /\ overflow_checks THEN Fail(s, "panic")
        ELSE IF (index > length \/ length - index > InlineLimit) /\ balance # 0
        THEN Fail(s, "NeedLiquidateIncreaseReward")
        ELSE IF loop.status # "ok" THEN Fail(s, loop.status)
        ELSE IF elp_amount > 0
        THEN [s EXCEPT
                !.reward = update_rewards(r0, user, elp_amount + reward_of(r0, user)),
                !.ret = <<now, length>>]
        ELSE [s EXCEPT !.reward = r0, !.ret = <<now, length>>]

get_elp_reward(s, user) ==
    LET daily_award == s.reward.daily_award
        \* the award clock starts at the first mint
        r0 == IF s.total_supply = 0 /\ s.reward.deploy_time = daily_award[2]
              THEN update_daily_award(s.reward, <<daily_award[1], now>>)
              ELSE s.reward
        balance == balance_of(s, user)
        coinday_info == get_coinday_info(r0, user)
        length == awards_length(r0)
        index == coinday_info.last_index
        loop == settle_loop(r0, coinday_info, balance, index, length, 1)
        elp_amount == loop.amount
    IN  IF s.err # "ok" THEN s
        ELSE IF index > length /\ overflow_checks THEN Fail(s, "panic")
        ELSE IF (index > length \/ length - index > InlineLimit) /\ balance # 0
        THEN Fail(s, "NeedLiquidateIncreaseReward")
        ELSE IF loop.status # "ok" THEN Fail(s, loop.status)
        ELSE IF elp_amount > 0
        THEN [s EXCEPT
                !.reward = update_rewards(r0, user, elp_amount + reward_of(r0, user)),
                !.ret = <<now, length>>]
        ELSE [s EXCEPT !.reward = r0, !.ret = <<now, length>>]

\* mutant: the share is value / balance in whole numbers, without the 1e8 scale
decrease_coinday_elp_NoScale(s, user, value, now_time, index) ==
    LET balance == balance_of(s, user)
        coinday_info == get_coinday_info(s.reward, user)
        cur_coinday == coinday_info.amount
                       + balance * (now_time - coinday_info.timestamp)
        decrease_coinday == cur_coinday * (value \div balance)
        new_coinday == cur_coinday - decrease_coinday
    IN  IF s.err # "ok" THEN s
        ELSE IF balance = 0 THEN Fail(s, "panic")
        ELSE [s EXCEPT
                !.reward = update_coindays(@, user, new_coinday, now_time, index),
                !.dec = decrease_coinday]

decrease_coinday_elp(s, user, value, now_time, index) ==
    LET balance == balance_of(s, user)
        coinday_info == get_coinday_info(s.reward, user)
        cur_coinday == coinday_info.amount
                       + balance * (now_time - coinday_info.timestamp)
        decrease_coinday == MulDiv(cur_coinday, MulDiv(value, E8, balance), E8)
        new_coinday == cur_coinday - decrease_coinday
    IN  IF s.err # "ok" THEN s
        ELSE IF overflow_checks /\ Underflows(now_time, coinday_info.timestamp)
        THEN Fail(s, "panic")
        ELSE IF balance = 0 THEN Fail(s, "panic")
        ELSE IF cur_coinday < 0 THEN Fail(s, "beyond")
        ELSE IF overflow_checks /\ Underflows(cur_coinday, decrease_coinday)
        THEN Fail(s, "panic")
        ELSE [s EXCEPT
                !.reward = update_coindays(@, user, new_coinday, now_time, index),
                !.dec = decrease_coinday]

increase_coinday_elp(s, user, now_time, index) ==
    LET balance == balance_of(s, user)
        coinday_info == get_coinday_info(s.reward, user)
        new_coinday == coinday_info.amount
                       + balance * (now_time - coinday_info.timestamp)
    IN  IF s.err # "ok" THEN s
        ELSE IF overflow_checks /\ Underflows(now_time, coinday_info.timestamp)
        THEN Fail(s, "panic")
        ELSE [s EXCEPT
                !.reward = update_coindays(@, user, new_coinday, now_time, index)]

\* mutant: the tracker forgets the share a decrease removed
update_total_elp_NoDecrease(s, timestamp, decrease) ==
    LET total_info == s.reward.total_coinday
        increase_coinday == s.total_supply * (timestamp - total_info[2])
        new_total_coinday == total_info[1] + increase_coinday
    IN  IF s.err # "ok" THEN s
        ELSE [s EXCEPT
                !.reward = update_total_coinday(@, <<new_total_coinday, timestamp>>)]

update_total_elp(s, timestamp, decrease) ==
    LET total_info == s.reward.total_coinday
        increase_coinday == s.total_supply * (timestamp - total_info[2])
        new_total_coinday == total_info[1] + increase_coinday - decrease
    IN  IF s.err # "ok" THEN s
        ELSE IF overflow_checks
                /\ (\/ Underflows(timestamp, total_info[2])
                    \/ Underflows(total_info[1] + increase_coinday, decrease))
        THEN Fail(s, "panic")
        ELSE [s EXCEPT
                !.reward = update_total_coinday(@, <<new_total_coinday, timestamp>>)]

\* ------------------------------------------------------------ RELP messages
\* mutant: the new balance is written before the settle and the roll forward
mint_BalanceFirst(s0, caller, user, amount) ==
    LET s == only_owner(s0, caller)
        user_balance == balance_of(s, user)
        sb == [s EXCEPT !.balances[user] = user_balance + amount]
        s1 == get_elc_reward(sb, user)
        timestamp == s1.ret[1]
        s2 == increase_coinday_elc(s1, user, timestamp, s1.ret[2])
        s3 == get_elp_reward(s2, user)
        s4 == increase_coinday_elp(s3, user, timestamp, s3.ret[2])
        s6 == update_total_elc(s4, timestamp, 0)
        s7 == update_total_elp(s6, timestamp, 0)
    IN  IF s.err # "ok" THEN s
        ELSE IF amount <= 0 THEN Fail(s, "InvalidAmount")
        ELSE IF s7.err # "ok" THEN s7
        ELSE [s7 EXCEPT !.total_supply = @ + amount]

\* mutant: the supply grows before the trackers are rolled forward
mint_SupplyFirst(s0, caller, user, amount) ==
    LET s == only_owner(s0, caller)
        user_balance == balance_of(s, user)
        s1 == get_elc_reward(s, user)
        timestamp == s1.ret[1]
        s2 == increase_coinday_elc(s1, user, timestamp, s1.ret[2])
        s3 == get_elp_reward(s2, user)
        s4 == increase_coinday_elp(s3, user, timestamp, s3.ret[2])
        s5 == [s4 EXCEPT !.balances[user] = user_balance + amount,
                         !.total_supply = @ + amount]
        s6 == update_total_elc(s5, timestamp, 0)
    IN  IF s.err # "ok" THEN s
        ELSE IF amount <= 0 THEN Fail(s, "InvalidAmount")
        ELSE update_total_elp(s6, timestamp, 0)

mint(s0, caller, user, amount) ==
    LET s == only_owner(s0, caller)
        user_balance == balance_of(s, user)
        s1 == get_elc_reward(s, user)
        timestamp == s1.ret[1]
        s2 == increase_coinday_elc(s1, user, timestamp, s1.ret[2])
        s3 == get_elp_reward(s2, user)
        s4 == increase_coinday_elp(s3, user, timestamp, s3.ret[2])
        s5 == [s4 EXCEPT !.balances[user] = user_balance + amount]
        s6 == update_total_elc(s5, timestamp, 0)
        s7 == update_total_elp(s6, timestamp, 0)
    IN  IF s.err # "ok" THEN s
        ELSE IF amount <= 0 THEN Fail(s, "InvalidAmount")
        ELSE IF s7.err # "ok" THEN s7
        ELSE [s7 EXCEPT !.total_supply = @ + amount]

burn(s0, caller, user, amount) ==
    LET s == only_owner(s0, caller)
        user_balance == balance_of(s, user)
        lock_balance == lock_info_of(s, user)[2]
        s1 == get_elc_reward(s, user)
        timestamp == s1.ret[1]
        s2 == decrease_coinday_elc(s1, user, amount, timestamp, s1.ret[2])
        decrease == s2.dec
        s3 == get_elp_reward(s2, user)
        s4 == decrease_coinday_elp(s3, user, amount, timestamp, s3.ret[2])
        decrease_elp == s4.dec
        s5 == [s4 EXCEPT !.balances[user] = user_balance - amount]
        s6 == update_total_elc(s5, timestamp, decrease)
        s7 == update_total_elp(s6, timestamp, decrease_elp)
    IN  IF s.err # "ok" THEN s
        ELSE IF s.total_supply < amount THEN Fail(s, "InsufficientSupply")
        ELSE IF overflow_checks /\ Underflows(user_balance, lock_balance)
        THEN Fail(s, "panic")
        ELSE IF ULt(user_balance - lock_balance, amount)
        THEN Fail(s, "InsufficientFreeBalance")
        ELSE IF s7.err # "ok" THEN s7
        ELSE [s7 EXCEPT !.total_supply = @ - amount]

transfer_from_to(s, from, to, value) ==
    LET from_balance == balance_of(s, from)
        lock_balance == lock_info_of(s, from)[2]
        s1 == get_elc_reward(s, from)
        timestamp == s1.ret[1]
        s2 == decrease_coinday_elc(s1, from, value, timestamp, s1.ret[2])
        decrease == s2.dec
        s3 == get_elp_reward(s2, from)
        s4 == decrease_coinday_elp(s3, from, value, timestamp, s3.ret[2])
        decrease_elp == s4.dec
        s5 == [s4 EXCEPT !.balances[from] = from_balance - value]
        to_balance == balance_of(s5, to)
        s6 == get_elc_reward(s5, to)
        s7 == increase_coinday_elc(s6, to, timestamp, s6.ret[2])
        s8 == get_elp_reward(s7, to)
        s9 == increase_coinday_elp(s8, to, timestamp, s8.ret[2])
        s10 == [s9 EXCEPT !.balances[to] = to_balance + value]
        s11 == update_total_elc(s10, timestamp, decrease)
    IN  IF s.err # "ok" THEN s
        ELSE IF overflow_checks /\ Underflows(from_balance, lock_balance)
        THEN Fail(s, "panic")
        ELSE IF ULt(from_balance - lock_balance, value)
        THEN Fail(s, "InsufficientFreeBalance")
        ELSE update_total_elp(s11, timestamp, decrease_elp)

transfer(s, caller, to, value) == transfer_from_to(s, caller, to, value)

RELP_allowance(s, from, spender) == s.allowances[<<from, spender>>]

\* mutant: the allowance is spent before the transfer is tried
transfer_from_SpendFirst(s, caller, from, to, value) ==
    LET s0 == [s EXCEPT !.allowances[<<from, caller>>] = @ - value]
    IN  IF RELP_allowance(s, from, caller) < value
        THEN Fail(s, "InsufficientAllowance")
        ELSE transfer_from_to(s0, from, to, value)

\* the `?` after transfer_from_to and the insert that follows it: a failed
\* transfer returns at once, a successful one has the allowance reduced
spend_allowance(s1, from, caller, value) ==
    IF s1.err # "ok" THEN s1
    ELSE [s1 EXCEPT !.allowances[<<from, caller>>] = @ - value]

transfer_from(s, caller, from, to, value) ==
    IF RELP_allowance(s, from, caller) < value
    THEN Fail(s, "InsufficientAllowance")
    ELSE spend_allowance(transfer_from_to(s, from, to, value),
                         from, caller, value)

approve(s, caller, spender, value) ==
    [s EXCEPT !.allowances[<<caller, spender>>] = value]

update_increase_awards(s0, caller, elc_amount) ==
    LET s == only_owner(s0, caller)
        now_time == now
        cur_total_coinday == s.additional.total_coinday[1]
        last_time == s.additional.total_coinday[2]
        increase_coinday == s.total_supply * (now_time - last_time)
        new_total_coinday == cur_total_coinday + increase_coinday
        old_total_reward == s.additional.total_reward
    IN  IF s.err # "ok" THEN s
        ELSE IF overflow_checks /\ Underflows(now_time, last_time)
        THEN Fail(s, "panic")
        ELSE IF ~add_update_awards_ok(new_total_coinday) THEN Fail(s, "panic")
        ELSE [s EXCEPT !.additional =
                update_awards(
                    update_total_coinday(
                        update_total_reward(@, elc_amount + old_total_reward),
                        <<new_total_coinday, now_time>>),
                    elc_amount, new_total_coinday, now_time)]

\* mutant: the daily amount decays before it is added to the period
RECURSIVE decay_loop_DecayFirst(_, _, _)
decay_loop_DecayFirst(new_daily_amount, period_award, epochs) ==
    IF epochs <= 0 THEN <<new_daily_amount, period_award>>
    ELSE decay_loop_DecayFirst((new_daily_amount * DecayNum) \div DecayDen,
             period_award + (new_daily_amount * DecayNum) \div DecayDen,
             epochs - 1)

\* the decay loop of update_block_awards: <<new_daily_amount, period_award>>
RECURSIVE decay_loop(_, _, _)
decay_loop(new_daily_amount, period_award, epochs) ==
    IF epochs <= 0 THEN <<new_daily_amount, period_award>>
    ELSE decay_loop((new_daily_amount * DecayNum) \div DecayDen,
                    period_award + new_daily_amount, epochs - 1)

\* mutant: a call before the interval is over seals an empty period
update_block_awards_NoInterval(s0, caller) ==
    LET s == only_owner(s0, caller)
        daily_award == s.reward.daily_award
        now_time == now
        epochs == (now_time - daily_award[2]) \div Interval
        new_timestamp == daily_award[2] + epochs * Interval
        decayed == decay_loop(daily_award[1], 0, epochs)
        elp_amount == decayed[2]
        cur_total_coinday == s.reward.total_coinday[1]
        last_time == s.reward.total_coinday[2]
        increase_coinday == s.total_supply * (now_time - last_time)
        new_total_coinday == cur_total_coinday + increase_coinday
        old_total_reward == s.reward.total_reward
    IN  IF s.err # "ok" THEN s
        ELSE IF ~(s.total_supply > 0) THEN Fail(s, "panic")
        ELSE [s EXCEPT !.reward =
                update_awards(
                    update_total_coinday(
                        update_total_reward(
                            update_daily_award(@, <<decayed[1], new_timestamp>>),
                            elp_amount + old_total_reward),
                        <<new_total_coinday, now_time>>),
                    elp_amount, new_total_coinday, now_time)]

\* mutant: the award clock is set to the time of the call
update_block_awards_ToNow(s0, caller) ==
    LET s == only_owner(s0, caller)
        daily_award == s.reward.daily_award
        now_time == now
        epochs == (now_time - daily_award[2]) \div Interval
        decayed == decay_loop(daily_award[1], 0, epochs)
        elp_amount == decayed[2]
        cur_total_coinday == s.reward.total_coinday[1]
        last_time == s.reward.total_coinday[2]
        increase_coinday == s.total_supply * (now_time - last_time)
        new_total_coinday == cur_total_coinday + increase_coinday
        old_total_reward == s.reward.total_reward
    IN  IF s.err # "ok" THEN s
        ELSE IF ~(s.total_supply > 0) THEN Fail(s, "panic")
        ELSE IF epochs <= 0 THEN Fail(s, "IntervalTooShort")
        ELSE [s EXCEPT !.reward =
                update_awards(
                    update_total_coinday(
                        update_total_reward(
                            update_daily_award(@, <<decayed[1], now_time>>),
                            elp_amount + old_total_reward),
                        <<new_total_coinday, now_time>>),
                    elp_amount, new_total_coinday, now_time)]

\* mutant: the epoch carries the total coin-days as they stood at the last call
update_block_awards_StaleTotal(s0, caller) ==
    LET s == only_owner(s0, caller)
        daily_award == s.reward.daily_award
        now_time == now
        epochs == (now_time - daily_award[2]) \div Interval
        new_timestamp == daily_award[2] + epochs * Interval
        decayed == decay_loop(daily_award[1], 0, epochs)
        elp_amount == decayed[2]
        cur_total_coinday == s.reward.total_coinday[1]
        last_time == s.reward.total_coinday[2]
        increase_coinday == s.total_supply * (now_time - last_time)
        new_total_coinday == cur_total_coinday + increase_coinday
        old_total_reward == s.reward.total_reward
    IN  IF s.err # "ok" THEN s
        ELSE IF ~(s.total_supply > 0) THEN Fail(s, "panic")
        ELSE IF epochs <= 0 THEN Fail(s, "IntervalTooShort")
        ELSE [s EXCEPT !.reward =
                update_awards(
                    update_total_coinday(
                        update_total_reward(
                            update_daily_award(@, <<decayed[1], new_timestamp>>),
                            elp_amount + old_total_reward),
                        <<new_total_coinday, now_time>>),
                    elp_amount, cur_total_coinday, now_time)]

update_block_awards(s0, caller) ==
    LET s == only_owner(s0, caller)
        daily_award == s.reward.daily_award
        now_time == now
        epochs == (now_time - daily_award[2]) \div Interval
        new_timestamp == daily_award[2] + epochs * Interval
        decayed == decay_loop(daily_award[1], 0, epochs)
        elp_amount == decayed[2]
        cur_total_coinday == s.reward.total_coinday[1]
        last_time == s.reward.total_coinday[2]
        increase_coinday == s.total_supply * (now_time - last_time)
        new_total_coinday == cur_total_coinday + increase_coinday
        old_total_reward == s.reward.total_reward
    IN  IF s.err # "ok" THEN s
        ELSE IF ~(s.total_supply > 0) THEN Fail(s, "panic")
        ELSE IF Underflows(now_time, daily_award[2])
        THEN (IF overflow_checks THEN Fail(s, "panic") ELSE Fail(s, "beyond"))
        ELSE IF epochs <= 0 THEN Fail(s, "IntervalTooShort")
        ELSE IF overflow_checks /\ Underflows(now_time, last_time)
        THEN Fail(s, "panic")
        ELSE [s EXCEPT !.reward =
                update_awards(
                    update_total_coinday(
                        update_total_reward(
                            update_daily_award(@, <<decayed[1], new_timestamp>>),
                            elp_amount + old_total_reward),
                        <<new_total_coinday, now_time>>),
                    elp_amount, new_total_coinday, now_time)]

\* mutant: the assert that there are uncollected periods is gone
liquidate_block_reward_NoAssert(s, user) ==
    LET balance == balance_of(s, user)
        coinday_info == get_coinday_info(s.reward, user)
        length == awards_length(s.reward)
        index == coinday_info.last_index
        i == Min(index + LiquidateLimit, length)
        loop == settle_loop(s.reward, coinday_info, balance, index, i, 1)
        elp_amount == loop.amount
        old_reward == reward_of(s.reward, user)
        s1 == [s EXCEPT !.reward = update_rewards(@, user, elp_amount + old_reward)]
    IN  IF s.err # "ok" THEN s
        ELSE IF loop.status # "ok" THEN Fail(s, loop.status)
        ELSE IF elp_amount > 0
        THEN (IF i >= length THEN Fail(s, "panic")
              ELSE increase_coinday_elp(s1, user, get_award(s.reward, i).timestamp, i))
        ELSE s

liquidate_block_reward(s, user) ==
    LET balance == balance_of(s, user)
        coinday_info == get_coinday_info(s.reward, user)
        length == awards_length(s.reward)
        index == coinday_info.last_index
        i == Min(index + LiquidateLimit, length)
        loop == settle_loop(s.reward, coinday_info, balance, index, i, 1)
        elp_amount == loop.amount
        old_reward == reward_of(s.reward, user)
        s1 == [s EXCEPT !.reward = update_rewards(@, user, elp_amount + old_reward)]
    IN  IF s.err # "ok" THEN s
        ELSE IF ~(length > index) THEN Fail(s, "panic")
        ELSE IF loop.status # "ok" THEN Fail(s, loop.status)
        ELSE IF elp_amount > 0
        THEN (IF i >= length THEN Fail(s, "panic")
              ELSE increase_coinday_elp(s1, user, get_award(s.reward, i).timestamp, i))
        ELSE s

liquidate_increase_reward(s, user) ==
    LET balance == balance_of(s, user)
        coinday_info == get_coinday_info(s.additional, user)
        length == awards_length(s.additional)
        index == coinday_info.last_index
        i == Min(index + LiquidateLimit, length)
        loop == settle_loop(s.additional, coinday_info, balance, index, i, E8)
        elc_amount == loop.amount
        old_reward == reward_of(s.additional, user)
        s1 == [s EXCEPT !.additional = update_rewards(@, user, elc_amount + old_reward)]
    IN  IF s.err # "ok" THEN s
        ELSE IF ~(balance > 0) THEN Fail(s, "panic")
        ELSE IF ~(length > index) THEN Fail(s, "panic")
        ELSE IF loop.status # "ok" THEN Fail(s, loop.status)
        ELSE IF elc_amount > 0
        THEN (IF i >= length THEN Fail(s, "panic")
              ELSE increase_coinday_elp(s1, user,
                       get_award(s.additional, i).timestamp, i))
        ELSE s

\* --------------------------------------------------------- Govern storage
GovernAddress == "govern"        \* account of the Govern contract

Govern_new(caller, now_time) ==
    [elcaim |-> 100000,
     k |-> 5,
     proposal_needs |-> 100,
     accounts_needs |-> 100,
     proposal |-> [type_ |-> 0, lock_amount |-> 0, begin |-> 0,
                   vote_begin |-> 0,
                   proposer |-> "none",    \* AccountId::default()
                   status |-> 0,
                   end |-> 0, new_k |-> 5],
     total_account |-> 0,
     total_approve_vote |-> 0,
     total_against_vote |-> 0,
     last_update_elcaim |-> now_time,
     owner |-> caller]

\* ------------------------------------------------------------------- state
Init ==
    /\ now = 0
    /\ overflow_checks \in BOOLEAN
    /\ owner = Deployer
    /\ total_supply = 0
    /\ balances = [a \in Accounts |-> 0]
    /\ lock_infos = [a \in Accounts |-> <<0, 0>>]
    /\ allowances = [p \in Accounts \X Accounts |-> 0]
    /\ govern = Govern_new(Deployer, 0)
    /\ block_number = 0
    /\ reward = [total_reward |-> 0,
                 rewards |-> [a \in Accounts |-> 0],
                 total_coinday |-> <<0, 0>>,
                 coindays |-> [a \in {Deployer} |-> Coinday(0, 0, 0)],
                 awards |-> <<>>,
                 daily_award |-> <<DailyAmount, 0>>,
                 deploy_time |-> 0]
    /\ additional = [total_reward |-> 0,
                     rewards |-> [a \in Accounts |-> 0],
                     total_coinday |-> <<0, 0>>,
                     coindays |-> [a \in {} |-> Coinday(0, 0, 0)],
                     awards |-> <<>>]
    /\ elc = [balances |-> [a \in Accounts |-> 0], total_supply |-> 0]
    /\ last = [op |-> "new", err |-> "ok"]
    /\ calls = 0

\* mutant: what a failed call had written by the time it failed stays written
Commit_KeepFailed(s, op) ==
    /\ last.err = "ok"
    /\ last' = [op |-> op, err |-> s.err]
    /\ calls < MaxCalls
    /\ calls' = calls + 1
    /\ total_supply' = s.total_supply
    /\ balances' = s.balances
    /\ lock_infos' = s.lock_infos
    /\ allowances' = s.allowances
    /\ reward' = s.reward
    /\ additional' = s.additional
    /\ elc' = s.elc
    /\ UNCHANGED <<now, overflow_checks, govern, block_number, owner>>

\* The end of a call: its storage is written back unless it failed.  A failed
\* call leaves the storage as it was, so every storage a run with failed calls
\* reaches is reached without them: a run is followed up to its first failed
\* call, which last records.
Commit(s, op) ==
    /\ last.err = "ok"
    /\ last' = [op |-> op, err |-> s.err]
    /\ IF s.err = "ok"
       THEN /\ calls < MaxCalls
            /\ calls' = calls + 1
            /\ total_supply' = s.total_supply
            /\ balances' = s.balances
            /\ lock_infos' = s.lock_infos
            /\ allowances' = s.allowances
            /\ reward' = s.reward
            /\ additional' = s.additional
            /\ elc' = s.elc
       ELSE UNCHANGED <<total_supply, balances, lock_infos, allowances,
                        reward, additional, elc, calls>>
    /\ UNCHANGED <<now, overflow_checks, govern, block_number, owner>>

Tick ==
    /\ last.err = "ok"
    /\ now + Interval <= MaxTicks * Interval
    /\ now' = now + Interval
    /\ last' = [op |-> "tick", err |-> "ok"]
    /\ UNCHANGED <<overflow_checks, govern, block_number, owner,
                   total_supply, balances, lock_infos, allowances, reward,
                   additional, elc, calls>>

\* mint, burn and transfer with the amount drawn from the set amounts
MintOf(amounts, max_supply) ==
    \E caller \in Callers, user \in Accounts, amount \in amounts :
        /\ total_supply + amount <= max_supply
        /\ Commit(mint(St, caller, user, amount), "mint")

BurnOf(amounts) ==
    \E caller \in Callers, user \in Accounts, amount \in amounts :
        Commit(burn(St, caller, user, amount), "burn")

TransferOf(amounts) ==
    \E from \in Accounts, to \in Accounts, value \in amounts :
        Commit(transfer(St, from, to, value), "transfer")

Mint == MintOf(Amounts, MaxSupply)

Burn == BurnOf(Amounts)

Transfer == TransferOf(Amounts)

UpdateIncreaseAwards ==
    \E caller \in Callers, elc_amount \in ElcAmounts :
        Commit(update_increase_awards(St, caller, elc_amount),
               "update_increase_awards")

UpdateBlockAwards ==
    \E caller \in Callers :
        Commit(update_block_awards(St, caller), "update_block_awards")

LiquidateBlockReward ==
    \E user \in Accounts :
        Commit(liquidate_block_reward(St, user), "liquidate_block_reward")

LiquidateIncreaseReward ==
    \E user \in Accounts :
        Commit(liquidate_increase_reward(St, user), "liquidate_increase_reward")

Next ==
    \/ Tick
    \/ Mint
    \/ Burn
    \/ Transfer
    \/ UpdateIncreaseAwards
    \/ UpdateBlockAwards
    \/ LiquidateBlockReward
    \/ LiquidateIncreaseReward

Spec == Init /\ [][Next]_vars

\* ---------------------------------------- the settle and decrease functions
\* SpecFn applies one mint, burn or transfer, and with it the inline settle
\* and the increase or decrease of the coin-days, to storage drawn from small
\* sets: a ledger of up to FnMaxEpochs epochs in each store (the
\* increase-reward ledger may be the shorter one), one holder with a balance
\* and a coin-day record that has collected any prefix of the ledger, and a
\* peer that either was never touched or has held its balance since time 0
\* without collecting an epoch.

\* time at which epoch i (1, 2, ...) of the drawn ledgers was sealed
FnSealTime(i) == 50 + 50 * i

\* epoch i of the drawn block-reward ledger: the first is the epoch of the
\* specification's scenario, the others hold more coin-days than any holder
\* drawn and do not divide evenly
FnEpoch(i) ==
    IF i = 1 THEN Award(100, 1000, FnSealTime(i))
    ELSE Award(100 - i, 60 * FnSealTime(i) + 7, FnSealTime(i))

\* epoch i of the drawn increase-reward ledger
FnAddEpoch(i) == Award(1 + (i % 2), 60 * FnSealTime(i) + 7, FnSealTime(i))

\* the coin-day records drawn for the holder of a ledger of k epochs
FnRecords(k) ==
    {Coinday(amount, 0, index) : amount \in {0, 17}, index \in 0..k}
        \cup {Coinday(0, now - 100, k), Coinday(5000, now, k)}

\* the reward already recorded for a holder settled through `index` epochs:
\* the whole of DailyAmount for each of them
FnReward(index) == DailyAmount * index

\* the same in the increase-reward store, where rewards carry the 1e8 scale
FnAddReward(index) == E8 * index

InitFn ==
    /\ now \in {FnSealTime(FnMaxEpochs), FnSealTime(FnMaxEpochs) + 100}
    /\ overflow_checks \in BOOLEAN
    /\ owner = Deployer
    /\ \E b \in FnBalances, peer \in FnBalances, k \in 0..FnMaxEpochs :
         \E coinday_info \in FnRecords(k), k_add \in {k, Min(k, InlineLimit)} :
            LET holders == IF peer = 0 THEN {Deployer} ELSE Accounts
                records == [a \in holders |->
                               IF a = Deployer THEN coinday_info
                               ELSE Coinday(0, 0, 0)]
                add_records == [a \in holders |->
                                   [records[a] EXCEPT
                                       !.last_index = Min(@, k_add)]]
                total == <<coinday_info.amount + peer * coinday_info.timestamp,
                           coinday_info.timestamp>>
            IN  /\ total_supply = b + peer
                /\ balances = [a \in Accounts |-> IF a = Deployer THEN b ELSE peer]
                /\ reward = [total_reward |-> 0,
                             rewards |-> [a \in Accounts |->
                                 IF a = Deployer
                                 THEN FnReward(records[a].last_index)
                                 ELSE 0],
                             total_coinday |-> total,
                             coindays |-> records,
                             awards |-> [i \in 1..k |-> FnEpoch(i)],
                             daily_award |-> <<DailyAmount, 0>>,
                             deploy_time |-> 0]
                /\ additional = [total_reward |-> 0,
                                 rewards |-> [a \in Accounts |->
                                     IF a = Deployer
                                     THEN FnAddReward(add_records[a].last_index)
                                     ELSE 0],
                                 total_coinday |-> total,
                                 coindays |-> add_records,
                                 awards |-> [i \in 1..k_add |-> FnAddEpoch(i)]]
    /\ lock_infos = [a \in Accounts |-> <<0, 0>>]
    /\ allowances = [p \in Accounts \X Accounts |-> 0]
    /\ govern = Govern_new(Deployer, 0)
    /\ block_number = 0
    /\ elc = [balances |-> [a \in Accounts |-> 0], total_supply |-> 0]
    /\ last = [op |-> "new", err |-> "ok"]
    /\ calls = MaxCalls - 1

NextFn ==
    \/ MintOf(FnAmounts, FnMaxSupply)
    \/ BurnOf(FnAmounts)
    \/ TransferOf(FnAmounts)

SpecFn == InitFn /\ [][NextFn]_vars

\* ------------------------------------------------------- the emission clock
\* SpecSeal runs mint and update_block_awards from the constructors' state.
\* Its clock advances by an interval, by a millisecond less or by one more,
\* so that calls arrive on, just before and just after the points of the
\* grid that the award clock keeps.
SealSteps == {Interval - 1, Interval, Interval + 1}

SealTick ==
    \E step \in SealSteps :
        /\ last.err = "ok"
        /\ now + step <= SealMaxTicks * Interval
        /\ now' = now + step
        /\ last' = [op |-> "tick", err |-> "ok"]
        /\ UNCHANGED <<overflow_checks, govern, block_number, owner,
                       total_supply, balances, lock_infos, allowances,
                       reward, additional, elc, calls>>

NextSeal ==
    \/ SealTick
    \/ Mint
    \/ UpdateBlockAwards

SpecSeal == Init /\ [][NextSeal]_vars

\* ------------------------------------------------------ manual liquidation
\* SpecLiq applies liquidate_block_reward and liquidate_increase_reward to
\* storage drawn from small sets: ledgers of up to LiqMaxEpochs epochs, two
\* more than one liquidation folds (the block-reward ledger may be the
\* shorter one), and one holder that has collected none, one or two of them.

\* time at which epoch i (1, 2, ...) of the drawn ledgers was sealed
LiqSealTime(i) == 50 * i

\* epoch i of the drawn block-reward ledger, sealed LiqSealLag after epoch i
\* of the increase-reward ledger; the holder drawn owns about a tenth of its
\* coin-days
LiqSealLag == 20

LiqEpoch(i) ==
    Award(100, 500 * LiqSealTime(i) + 7, LiqSealTime(i) + LiqSealLag)

\* epoch i of the drawn increase-reward ledger
LiqAddEpoch(i) == Award(1, 500 * LiqSealTime(i) + 7, LiqSealTime(i))

\* the lengths of the ledgers drawn
LiqLengths == {0, 1, 2, LiquidateLimit, LiqMaxEpochs - 1, LiqMaxEpochs}

InitLiq ==
    /\ now = LiqSealTime(LiqMaxEpochs) + LiqSealLag
    /\ overflow_checks \in BOOLEAN
    /\ owner = Deployer
    /\ \E b \in FnBalances, k \in LiqLengths, amount \in {0, 17} :
         \E index \in 0..Min(k, 2), k_elp \in {k, Min(k, 2)} :
            LET records == [a \in {Deployer} |-> Coinday(amount, 0, index)]
            IN  /\ total_supply = b
                /\ balances = [a \in Accounts |-> IF a = Deployer THEN b ELSE 0]
                /\ reward = [total_reward |-> 0,
                             rewards |-> [a \in Accounts |-> 0],
                             total_coinday |-> <<amount, 0>>,
                             coindays |-> records,
                             awards |-> [i \in 1..k_elp |-> LiqEpoch(i)],
                             daily_award |-> <<DailyAmount, 0>>,
                             deploy_time |-> 0]
                /\ additional = [total_reward |-> 0,
                                 rewards |-> [a \in Accounts |-> 0],
                                 total_coinday |-> <<amount, 0>>,
                                 coindays |-> records,
                                 awards |-> [i \in 1..k |-> LiqAddEpoch(i)]]
    /\ lock_infos = [a \in Accounts |-> <<0, 0>>]
    /\ allowances = [p \in Accounts \X Accounts |-> 0]
    /\ govern = Govern_new(Deployer, 0)
    /\ block_number = 0
    /\ elc = [balances |-> [a \in Accounts |-> 0], total_supply |-> 0]
    /\ last = [op |-> "new", err |-> "ok"]
    /\ calls = MaxCalls - 2

NextLiq ==
    \/ LiquidateBlockReward
    \/ LiquidateIncreaseReward

SpecLiq == InitLiq /\ [][NextLiq]_vars

\* -------------------------------------------------------------- SpecLong
\* SpecLong applies manual liquidations to the storage of a sole holder who
\* has kept one balance since the first mint and has settled the first
\* epochs of a long block-reward ledger inline, before the epochs of the
\* increase-reward ledger were sealed.
LongEpochs == 101

LongSettled == 52

LongBalance == 50

InitLong ==
    /\ overflow_checks \in BOOLEAN
    /\ owner = Deployer
    /\ \E settled \in (LongSettled - 2)..LongSettled,
          k \in {LongEpochs - 1, LongEpochs},
          k_add \in {LiquidateLimit, LiquidateLimit + 1} :
         LET t0 == LiqSealTime(settled)
             t1 == Max(LiqSealTime(k), t0 + LiqSealTime(k_add))
             record == Coinday(LongBalance * t0, t0, settled)
             \* epoch i of the block-reward ledger, sealed while the holder
             \* held the whole supply; the amounts go down epoch by epoch
             LongEpoch(i) ==
                 Award(2 * DailyAmount - i, LongBalance * LiqSealTime(i),
                       LiqSealTime(i))
             \* the sum of the amounts of the epochs 1..n
             LongEmitted(n) == 2 * DailyAmount * n - (n * (n + 1)) \div 2
             \* epoch j of the increase-reward ledger, sealed after the
             \* holder's last settle at t0; only the first carries an amount
             LongAddEpoch(j) ==
                 Award(IF j = 1 THEN 1 ELSE 0,
                       LongBalance * (t0 + LiqSealTime(j)),
                       t0 + LiqSealTime(j))
         IN  /\ now = t1
             /\ total_supply = LongBalance
             /\ balances = [a \in Accounts |->
                              IF a = Deployer THEN LongBalance ELSE 0]
             /\ reward = [total_reward |-> LongEmitted(k),
                          rewards |-> [a \in Accounts |->
                              IF a = Deployer THEN LongEmitted(settled)
                              ELSE 0],
                          total_coinday |->
                              <<LongBalance * LiqSealTime(k), LiqSealTime(k)>>,
                          coindays |-> [a \in {Deployer} |-> record],
                          awards |-> [i \in 1..k |-> LongEpoch(i)],
                          daily_award |-> <<DailyAmount, LiqSealTime(k)>>,
                          deploy_time |-> 0]
             /\ additional = [total_reward |-> 1,
                              rewards |-> [a \in Accounts |-> 0],
                              total_coinday |->
                                  <<LongBalance * (t0 + LiqSealTime(k_add)),
                                    t0 + LiqSealTime(k_add)>>,
                              coindays |->
                                  [a \in {Deployer} |->
                                      [record EXCEPT !.last_index = 0]],
                              awards |-> [j \in 1..k_add |->
                                             LongAddEpoch(j)]]
    /\ lock_infos = [a \in Accounts |-> <<0, 0>>]
    /\ allowances = [p \in Accounts \X Accounts |-> 0]
    /\ govern = Govern_new(Deployer, 0)
    /\ block_number = 0
    /\ elc = [balances |-> [a \in Accounts |-> 0], total_supply |-> 0]
    /\ last = [op |-> "new", err |-> "ok"]
    /\ calls = MaxCalls - 2

SpecLong == InitLong /\ [][NextLiq]_vars

\* ------------------------------------------------------------- SpecToken
\* The token messages of RELP by themselves, from the constructors' state,
\* with every account as a caller and amounts that the messages refuse.
TokAmounts == {0, 1}
TokCalls == 3                    \* calls that change storage in one run

\* the constructors' state, with TokCalls calls left
InitToken ==
    /\ now = 0
    /\ overflow_checks \in BOOLEAN
    /\ owner = Deployer
    /\ total_supply = 0
    /\ balances = [a \in Accounts |-> 0]
    /\ lock_infos = [a \in Accounts |-> <<0, 0>>]
    /\ allowances = [p \in Accounts \X Accounts |-> 0]
    /\ govern = Govern_new(Deployer, 0)
    /\ block_number = 0
    /\ reward = [total_reward |-> 0,
                 rewards |-> [a \in Accounts |-> 0],
                 total_coinday |-> <<0, 0>>,
                 coindays |-> [a \in {Deployer} |-> Coinday(0, 0, 0)],
                 awards |-> <<>>,
                 daily_award |-> <<DailyAmount, 0>>,
                 deploy_time |-> 0]
    /\ additional = [total_reward |-> 0,
                     rewards |-> [a \in Accounts |-> 0],
                     total_coinday |-> <<0, 0>>,
                     coindays |-> [a \in {} |-> Coinday(0, 0, 0)],
                     awards |-> <<>>]
    /\ elc = [balances |-> [a \in Accounts |-> 0], total_supply |-> 0]
    /\ last = [op |-> "new", err |-> "ok"]
    /\ calls = MaxCalls - TokCalls

NextToken ==
    \/ Tick
    \/ \E caller \in Accounts, user \in Accounts, amount \in TokAmounts :
          Commit(mint(St, caller, user, amount), "mint")
    \/ \E caller \in Accounts, user \in Accounts, amount \in TokAmounts :
          Commit(burn(St, caller, user, amount), "burn")
    \/ \E caller \in Accounts, to \in Accounts, value \in TokAmounts :
          Commit(transfer(St, caller, to, value), "transfer")
    \/ \E caller \in Accounts, from \in Accounts, to \in Accounts,
          value \in TokAmounts :
          Commit(transfer_from(St, caller, from, to, value), "transfer_from")
    \/ \E caller \in Accounts, spender \in Accounts, value \in TokAmounts :
          Commit(approve(St, caller, spender, value), "approve")

SpecToken == InitToken /\ [][NextToken]_vars

\* ------------------------------------------------------------ SpecReward
\* SpecReward runs the messages of the Reward contract by themselves, from
\* the state its constructor leaves, with every account as a caller.  Here
\* `owner` is the owner field of the Reward contract and `reward` the rest of
\* its storage; last also records the caller, the arguments and the value
\* returned.
RwMaxCalls == 2

RwValues == {0, 1}

RwIndexes == {0, 1, 2}

\* the storage of the Reward contract during one of its messages
RwSt == [reward |-> reward, owner |-> owner, err |-> "ok", ret |-> <<>>]

\* mutant: the caller is compared with the account that deployed the contract
reward_only_owner_Deployer(r, caller) ==
    IF r.err = "ok" /\ caller # Deployer
    THEN [r EXCEPT !.err = "OnlyOwnerAccess"]
    ELSE r

reward_only_owner(r, caller) ==
    IF r.err = "ok" /\ caller # r.owner
    THEN [r EXCEPT !.err = "OnlyOwnerAccess"]
    ELSE r

Reward_update_total_reward(r, caller, new_value) ==
    LET r1 == reward_only_owner(r, caller)
    IN  IF r1.err # "ok" THEN r1
        ELSE [r1 EXCEPT !.reward = update_total_reward(@, new_value)]

Reward_update_rewards(r, caller, user, value) ==
    LET r1 == reward_only_owner(r, caller)
    IN  IF r1.err # "ok" THEN r1
        ELSE [r1 EXCEPT !.reward = update_rewards(@, user, value)]

Reward_update_total_coinday(r, caller, new_value) ==
    LET r1 == reward_only_owner(r, caller)
    IN  IF r1.err # "ok" THEN r1
        ELSE [r1 EXCEPT !.reward = update_total_coinday(@, new_value)]

Reward_update_coindays(r, caller, user, coinday, timestamp, index) ==
    LET r1 == reward_only_owner(r, caller)
    IN  IF r1.err # "ok" THEN r1
        ELSE [r1 EXCEPT
                !.reward = update_coindays(@, user, coinday, timestamp, index)]

Reward_update_awards(r, caller, amount, total_coinday, timestamp) ==
    LET r1 == reward_only_owner(r, caller)
    IN  IF r1.err # "ok" THEN r1
        ELSE [r1 EXCEPT
                !.reward = update_awards(@, amount, total_coinday, timestamp)]

Reward_update_daily_award(r, caller, new_amount) ==
    LET r1 == reward_only_owner(r, caller)
    IN  IF r1.err # "ok" THEN r1
        ELSE [r1 EXCEPT !.reward = update_daily_award(@, new_amount)]

Reward_transfer_ownership(r, caller, new_owner) ==
    LET r1 == reward_only_owner(r, caller)
    IN  IF r1.err # "ok" THEN r1
        ELSE [r1 EXCEPT !.owner = new_owner]

\* awards[index] of a Vec: an index past the end traps
Reward_get_award(r, index) ==
    IF index >= awards_length(r.reward) THEN [r EXCEPT !.err = "panic"]
    ELSE [r EXCEPT !.ret = get_award(r.reward, index)]

Reward_get_coinday_info(r, user) ==
    [r EXCEPT !.ret = get_coinday_info(r.reward, user)]

InitReward ==
    /\ Init
    /\ overflow_checks

\* The end of a message of Reward: what it wrote is kept unless it failed.
RwCommit(r, op, caller, args) ==
    /\ calls < RwMaxCalls
    /\ calls' = calls + 1
    /\ last' = [op |-> op, err |-> r.err, caller |-> caller, args |-> args,
                ret |-> r.ret]
    /\ reward' = IF r.err = "ok" THEN r.reward ELSE reward
    /\ owner' = IF r.err = "ok" THEN r.owner ELSE owner
    /\ UNCHANGED <<now, overflow_checks, govern, block_number, total_supply,
                   balances, lock_infos, allowances, additional, elc>>

RwTick ==
    /\ now + Interval <= MaxTicks * Interval
    /\ now' = now + Interval
    /\ last' = [op |-> "tick", err |-> "ok", caller |-> Deployer,
                args |-> <<>>, ret |-> <<>>]
    /\ UNCHANGED <<overflow_checks, govern, block_number, owner,
                   total_supply, balances, lock_infos, allowances, reward,
                   additional, elc, calls>>

RwUpdateTotalReward ==
    \E caller \in Accounts, v \in RwValues :
        RwCommit(Reward_update_total_reward(RwSt, caller, v),
                 "update_total_reward", caller, <<v>>)

RwUpdateRewards ==
    \E caller \in Accounts, user \in Accounts, v \in RwValues :
        RwCommit(Reward_update_rewards(RwSt, caller, user, v),
                 "update_rewards", caller, <<user, v>>)

RwUpdateTotalCoinday ==
    \E caller \in Accounts, v \in RwValues :
        RwCommit(Reward_update_total_coinday(RwSt, caller, <<v, now>>),
                 "update_total_coinday", caller, <<v, now>>)

RwUpdateCoindays ==
    \E caller \in Accounts, user \in Accounts, a \in RwValues,
       i \in RwValues :
        RwCommit(Reward_update_coindays(RwSt, caller, user, a, now, i),
                 "update_coindays", caller, <<user, a, now, i>>)

RwUpdateAwards ==
    \E caller \in Accounts, total_coinday \in RwValues :
        RwCommit(Reward_update_awards(RwSt, caller, DailyAmount,
                                      total_coinday, now),
                 "update_awards", caller, <<DailyAmount, total_coinday, now>>)

RwUpdateDailyAward ==
    \E caller \in Accounts, v \in RwValues :
        RwCommit(Reward_update_daily_award(RwSt, caller, <<v, now>>),
                 "update_daily_award", caller, <<v, now>>)

RwTransferOwnership ==
    \E caller \in Accounts, new_owner \in Accounts :
        RwCommit(Reward_transfer_ownership(RwSt, caller, new_owner),
                 "transfer_ownership", caller, <<new_owner>>)

RwGetAward ==
    \E caller \in Accounts, index \in RwIndexes :
        RwCommit(Reward_get_award(RwSt, index), "get_award", caller,
                 <<index>>)

RwGetCoindayInfo ==
    \E caller \in Accounts, user \in Accounts :
        RwCommit(Reward_get_coinday_info(RwSt, user), "get_coinday_info",
                 caller, <<user>>)

NextReward ==
    \/ RwTick
    \/ RwUpdateTotalReward
    \/ RwUpdateRewards
    \/ RwUpdateTotalCoinday
    \/ RwUpdateCoindays
    \/ RwUpdateAwards
    \/ RwUpdateDailyAward
    \/ RwTransferOwnership
    \/ RwGetAward
    \/ RwGetCoindayInfo

SpecReward == InitReward /\ [][NextReward]_vars

\* --------------------------------------------------------------- SpecElc
\* SpecElc runs the messages of the ELC token by themselves, from the state
\* its constructor leaves, with every account as a caller.  Here `owner` is
\* the owner field of the ELC contract and `elc` the rest of its storage,
\* allowances included.  Balance is an unsigned type: its largest value is
\* scaled down to ElcMaxBalance, so that the calls reach the end of the type.
ElcMaxBalance == 7

ElcMaxCalls == 4

ElcValues == {0, 1, ElcMaxBalance}

\* a + b in Balance, when the build wraps
ElcWrap(n) == n % (ElcMaxBalance + 1)

saturating_add(a, b) == Min(a + b, ElcMaxBalance)

saturating_sub(a, b) == Max(a - b, 0)

\* the storage of the ELC contract during one of its messages
ElcSt ==
    [balances |-> elc.balances, total_supply |-> elc.total_supply,
     allowances |-> elc.allowances, owner |-> owner, err |-> "ok"]

ElcFail(e, err) == [e EXCEPT !.err = err]

ELC_balance_of(e, user) == e.balances[user]

ELC_allowance(e, from, spender) == e.allowances[<<from, spender>>]

ELC_only_owner(e, caller) ==
    IF e.err = "ok" /\ caller # e.owner THEN ElcFail(e, "OnlyOwnerAccess")
    ELSE e

ELC_transfer_from_to(e, from, to, value) ==
    LET from_balance == ELC_balance_of(e, from)
        e1 == [e EXCEPT !.balances[from] = from_balance - value]
        to_balance == ELC_balance_of(e1, to)
    IN  IF e.err # "ok" THEN e
        ELSE IF from_balance < value THEN ElcFail(e, "InsufficientBalance")
        ELSE IF to_balance + value > ElcMaxBalance /\ overflow_checks
        THEN ElcFail(e1, "panic")
        ELSE [e1 EXCEPT !.balances[to] = ElcWrap(to_balance + value)]

ELC_transfer(e, caller, to, value) == ELC_transfer_from_to(e, caller, to, value)

ELC_transfer_from(e, caller, from, to, value) ==
    LET allowance == ELC_allowance(e, from, caller)
        e1 == ELC_transfer_from_to(e, from, to, value)
    IN  IF allowance < value THEN ElcFail(e, "InsufficientAllowance")
        ELSE IF e1.err # "ok" THEN e1
        ELSE [e1 EXCEPT !.allowances[<<from, caller>>] = allowance - value]

ELC_approve(e, caller, spender, value) ==
    [e EXCEPT !.allowances[<<caller, spender>>] = value]

\* user is never the zero account here, so assert_ne!(user, default) passes
ELC_mint(e, caller, user, amount) ==
    LET e0 == ELC_only_owner(e, caller)
        user_balance == ELC_balance_of(e, user)
        e1 == [e EXCEPT !.balances[user] = saturating_add(user_balance, amount)]
    IN  IF e0.err # "ok" THEN e0
        ELSE IF amount <= 0 THEN ElcFail(e, "InvalidAmount")
        ELSE IF e.total_supply + amount > ElcMaxBalance /\ overflow_checks
        THEN ElcFail(e1, "panic")
        ELSE [e1 EXCEPT !.total_supply = ElcWrap(@ + amount)]

ELC_burn(e, caller, user, amount) ==
    LET e0 == ELC_only_owner(e, caller)
        user_balance == ELC_balance_of(e, user)
    IN  IF e0.err # "ok" THEN e0
        ELSE IF e.total_supply < amount THEN ElcFail(e, "InsufficientSupply")
        ELSE IF user_balance < amount THEN ElcFail(e, "InsufficientBalance")
        ELSE [e EXCEPT !.balances[user] = saturating_sub(user_balance, amount),
                       !.total_supply = @ - amount]

InitElc ==
    /\ now = 0
    /\ overflow_checks \in BOOLEAN
    /\ owner = Deployer
    /\ total_supply = 0
    /\ balances = [a \in Accounts |-> 0]
    /\ lock_infos = [a \in Accounts |-> <<0, 0>>]
    /\ allowances = [p \in Accounts \X Accounts |-> 0]
    /\ govern = Govern_new(Deployer, 0)
    /\ block_number = 0
    /\ reward = [total_reward |-> 0,
                 rewards |-> [a \in Accounts |-> 0],
                 total_coinday |-> <<0, 0>>,
                 coindays |-> [a \in {Deployer} |-> Coinday(0, 0, 0)],
                 awards |-> <<>>,
                 daily_award |-> <<DailyAmount, 0>>,
                 deploy_time |-> 0]
    /\ additional = [total_reward |-> 0,
                     rewards |-> [a \in Accounts |-> 0],
                     total_coinday |-> <<0, 0>>,
                     coindays |-> [a \in {} |-> Coinday(0, 0, 0)],
                     awards |-> <<>>]
    /\ elc = [balances |-> [a \in Accounts |-> 0], total_supply |-> 0,
              allowances |-> [p \in Accounts \X Accounts |-> 0]]
    /\ last = [op |-> "new", err |-> "ok", caller |-> Deployer, args |-> <<>>]
    /\ calls = 0

\* The end of a message of ELC: what it wrote is kept unless it failed.
ElcCommit(e, op, caller, args) ==
    /\ calls < ElcMaxCalls
    /\ calls' = calls + 1
    /\ last' = [op |-> op, err |-> e.err, caller |-> caller, args |-> args]
    /\ elc' = IF e.err = "ok"
              THEN [balances |-> e.balances, total_supply |-> e.total_supply,
                    allowances |-> e.allowances]
              ELSE elc
    /\ UNCHANGED <<now, overflow_checks, govern, block_number, owner,
                   total_supply, balances, lock_infos, allowances, reward,
                   additional>>

ElcMint ==
    \E caller \in Accounts, user \in Accounts, amount \in ElcValues :
        ElcCommit(ELC_mint(ElcSt, caller, user, amount), "mint", caller,
                  <<user, amount>>)

ElcBurn ==
    \E caller \in Accounts, user \in Accounts, amount \in ElcValues :
        ElcCommit(ELC_burn(ElcSt, caller, user, amount), "burn", caller,
                  <<user, amount>>)

ElcTransfer ==
    \E caller \in Accounts, to \in Accounts, value \in ElcValues :
        ElcCommit(ELC_transfer(ElcSt, caller, to, value), "transfer", caller,
                  <<to, value>>)

ElcTransferFrom ==
    \E caller \in Accounts, from \in Accounts, to \in Accounts,
       value \in ElcValues :
        ElcCommit(ELC_transfer_from(ElcSt, caller, from, to, value),
                  "transfer_from", caller, <<from, to, value>>)

ElcApprove ==
    \E caller \in Accounts, spender \in Accounts, value \in ElcValues :
        ElcCommit(ELC_approve(ElcSt, caller, spender, value), "approve",
                  caller, <<spender, value>>)

NextElc ==
    \/ ElcMint
    \/ ElcBurn
    \/ ElcTransfer
    \/ ElcTransferFrom
    \/ ElcApprove

SpecElc == InitElc /\ [][NextElc]_vars

\* ------------------------------------------------------------ SpecGovern
\* The messages of the Govern contract, on a RELP that has minted GovBalance
\* to each account at the deploy time and whose owner is the Govern contract
\* (update_lock_infos is owner-gated).  A block takes BlockTime.
GovMaxBlocks == 2400             \* block numbers run from 0 to GovMaxBlocks
GovCalls == 3                    \* calls that change storage in one run
GovBalance == 100                \* rELP each account holds
BlockTime == 6000                \* milliseconds between two blocks
DeltaBlocks == 1200              \* blocks of the proposal and of the voting period
ElcaimInterval == 600000         \* 600 * 1000: milliseconds between two elcaim updates
ElcaimAdvance == 60000000        \* 60000 * 1000: what one update adds to last_update_elcaim
KBase == 100000

GovAmounts == {50, 100}          \* lock_amount of a proposal, vote_amount of a vote

\* The storage a message of Govern works on: its own and that of RELP.
GovSt ==
    [govern |-> govern, total_supply |-> total_supply, balances |-> balances,
     lock_infos |-> lock_infos, err |-> "ok", ret |-> 0]

update_lock_infos(s, caller, user, lock_info) ==
    LET s1 == only_owner(s, caller)
    IN  IF s1.err # "ok" THEN s1
        ELSE [s EXCEPT !.lock_infos[user] = lock_info]

\* assert!(call.is_ok())
AssertOk(s) == IF s.err = "ok" THEN s ELSE Fail(s, "panic")

govern_only_owner(s, caller) ==
    IF s.govern.owner # caller THEN Fail(s, "OnlyOwnerAccess") ELSE s

clean_vote_info(s) ==
    [s EXCEPT !.govern.proposal.type_ = 0,
              !.govern.proposal.status = 0,
              !.govern.total_account = 0,
              !.govern.total_approve_vote = 0,
              !.govern.total_against_vote = 0]

update_votes(s, vote_amount, is_approve) ==
    LET s1 == IF is_approve
              THEN [s EXCEPT !.govern.total_approve_vote = @ + vote_amount]
              ELSE [s EXCEPT !.govern.total_against_vote = @ + vote_amount]
    IN  [s1 EXCEPT !.govern.total_account = @ + 1]

counting_vote(s) ==
    LET approve_vote == s.govern.total_approve_vote
        against_vote == s.govern.total_against_vote
        total_relp_supply == s.total_supply
        a == (against_vote * against_vote) \div (approve_vote + against_vote)
        b == (approve_vote * approve_vote) \div total_relp_supply
    IN  IF s.govern.total_account < s.govern.accounts_needs
        THEN [clean_vote_info(s) EXCEPT !.ret = 4]
        ELSE IF ~(approve_vote + against_vote > 0 /\ total_relp_supply > 0)
        THEN Fail(s, "panic")
        ELSE IF a < b
        THEN [clean_vote_info([s EXCEPT !.govern.k = s.govern.proposal.new_k])
                EXCEPT !.ret = 3]
        ELSE [clean_vote_info(s) EXCEPT !.ret = 4]

Govern_update(s) ==
    LET proposal == s.govern.proposal
    IN  IF proposal.type_ = 0 THEN [s EXCEPT !.ret = 0]
        ELSE IF proposal.status = 1 \/ proposal.status = 2
        THEN IF block_number < proposal.vote_begin
             THEN [s EXCEPT !.govern.proposal.status = 1, !.ret = 1]
             ELSE IF block_number < proposal.end
             THEN [s EXCEPT !.govern.proposal.status = 2, !.ret = 2]
             ELSE counting_vote(s)
        ELSE [s EXCEPT !.ret = proposal.status]

proposal_update_k(s, caller, lock_amount, new_k) ==
    LET s1 == Govern_update(s)
        state == s1.ret
        balance == balance_of(s1, caller)
        current_block_number == block_number
        proposal == [type_ |-> 1,
                     lock_amount |-> lock_amount,
                     begin |-> current_block_number,
                     vote_begin |-> current_block_number + DeltaBlocks,
                     proposer |-> caller,
                     status |-> 1,
                     end |-> current_block_number + DeltaBlocks * 2,
                     new_k |-> new_k]
        s2 == [s1 EXCEPT !.govern.proposal = proposal]
    IN  IF lock_amount < s.govern.proposal_needs
        THEN Fail(s, "InsufficientAmount")
        ELSE IF s1.err # "ok" THEN s1
        ELSE IF state = 2 THEN Fail(s1, "ProposalOnVoting")
        ELSE IF s1.govern.proposal.type_ = 2
        THEN Fail(s1, "ProposalAreadyExist")
        ELSE IF s1.govern.proposal.type_ = 1 /\ state = 1
                /\ lock_amount <= s1.govern.proposal.lock_amount
        THEN Fail(s1, "ExistHigherLockAmount")
        ELSE IF balance < lock_amount THEN Fail(s1, "InsufficientBalance")
        ELSE AssertOk(update_lock_infos(s2, GovernAddress, caller,
                                        <<current_block_number, lock_amount>>))

withdraw_lock_amount(s, user) ==
    LET lock_info == lock_info_of(s, user)
    IN  IF lock_info[1] < s.govern.proposal.begin /\ lock_info[2] # 0
        THEN AssertOk(update_lock_infos(s, GovernAddress, user, <<0, 0>>))
        ELSE s

vote(s, caller, vote_amount, is_approve) ==
    LET s1 == Govern_update(s)
        state == s1.ret
        balance == balance_of(s1, caller)
        lock_info == lock_info_of(s1, caller)
        lock_balance == lock_info[2]
        cur_block_num == block_number
        locked == IF caller = s1.govern.proposal.proposer
                  THEN lock_balance + vote_amount
                  ELSE vote_amount
        s2 == AssertOk(update_lock_infos(s1, GovernAddress, caller,
                                         <<cur_block_num, locked>>))
    IN  IF s1.err # "ok" THEN s1
        ELSE IF state # 2 THEN Fail(s1, "NonVotingPeriod")
        ELSE IF balance < vote_amount THEN Fail(s1, "InsufficientBalance")
        ELSE IF lock_info[1] > s1.govern.proposal.vote_begin
        THEN Fail(s1, "AlreadyVoted")
        ELSE IF s2.err # "ok" THEN s2
        ELSE update_votes(s2, vote_amount, is_approve)

\* elcaim * (k_base + k) / k_base, once for every i in i..epochs-1; the
\* loop is folded by halves, and a price of 0 stays 0
RECURSIVE elcaim_loop(_, _, _, _)
elcaim_loop(elcaim, k, i, epochs) ==
    IF i >= epochs THEN elcaim
    ELSE IF epochs = i + 1 THEN MulDiv(elcaim, KBase + k, KBase)
    ELSE LET m == (i + epochs) \div 2
             head == elcaim_loop(elcaim, k, i, m)
         IN  IF head = 0 THEN 0 ELSE elcaim_loop(head, k, m, epochs)

\* now_time - last_update_elcaim below zero traps a build with overflow
\* checks; a build without them wraps to about 2^128 and the loop over that
\* many epochs ends when the call's gas does.
Govern_elcaim(s) ==
    LET now_time == now
        intervals == (now_time - s.govern.last_update_elcaim) \div ElcaimInterval
        price == elcaim_loop(s.govern.elcaim, s.govern.k, 0, intervals)
    IN  IF Underflows(now_time, s.govern.last_update_elcaim)
        THEN Fail(s, IF overflow_checks THEN "panic" ELSE "OutOfGas")
        ELSE [s EXCEPT !.govern.elcaim = price,
                       !.govern.last_update_elcaim = @ + intervals * ElcaimAdvance,
                       !.ret = price]

set_proposal_needs(s, caller, new_value) ==
    LET s1 == govern_only_owner(s, caller)
    IN  IF s1.err # "ok" THEN s1
        ELSE [s EXCEPT !.govern.proposal_needs = new_value]

set_accounts_needs(s, caller, new_value) ==
    LET s1 == govern_only_owner(s, caller)
    IN  IF s1.err # "ok" THEN s1
        ELSE [s EXCEPT !.govern.accounts_needs = new_value]

Govern_transfer_ownership(s, caller, new_owner) ==
    LET s1 == govern_only_owner(s, caller)
    IN  IF s1.err # "ok" THEN s1
        ELSE [s EXCEPT !.govern.owner = new_owner]

\* RELP after mint(a, GovBalance) for every account a at the deploy time and
\* transfer_ownership to the Govern contract; Govern deployed at that time.
\* GovCalls calls are left.
InitGovern ==
    /\ now = 0
    /\ block_number = 0
    /\ overflow_checks \in BOOLEAN
    /\ owner = GovernAddress
    /\ total_supply = GovBalance * Cardinality(Accounts)
    /\ balances = [a \in Accounts |-> GovBalance]
    /\ lock_infos = [a \in Accounts |-> <<0, 0>>]
    /\ allowances = [p \in Accounts \X Accounts |-> 0]
    /\ govern = Govern_new(Deployer, 0)
    /\ reward = [total_reward |-> 0,
                 rewards |-> [a \in Accounts |-> 0],
                 total_coinday |-> <<0, 0>>,
                 coindays |-> [a \in Accounts |-> Coinday(0, 0, 0)],
                 awards |-> <<>>,
                 daily_award |-> <<DailyAmount, 0>>,
                 deploy_time |-> 0]
    /\ additional = [total_reward |-> 0,
                     rewards |-> [a \in Accounts |-> 0],
                     total_coinday |-> <<0, 0>>,
                     coindays |-> [a \in Accounts |-> Coinday(0, 0, 0)],
                     awards |-> <<>>]
    /\ elc = [balances |-> [a \in Accounts |-> 0], total_supply |-> 0]
    /\ last = [op |-> "new", err |-> "ok"]
    /\ calls = MaxCalls - GovCalls

\* The end of a message of Govern: what it wrote, in its own storage and in
\* the lock records of RELP, is kept unless it failed.
GovCommit(s, op) ==
    /\ last.err = "ok"
    /\ last' = [op |-> op, err |-> s.err]
    /\ IF s.err = "ok"
       THEN /\ calls < MaxCalls
            /\ calls' = calls + 1
            /\ govern' = s.govern
            /\ lock_infos' = s.lock_infos
       ELSE UNCHANGED <<govern, lock_infos, calls>>
    /\ UNCHANGED <<now, block_number, overflow_checks, owner, total_supply,
                   balances, allowances, reward, additional, elc>>

GovTick ==
    \E step \in {DeltaBlocks \div 2, DeltaBlocks} :
        /\ last.err = "ok"
        /\ block_number + step <= GovMaxBlocks
        /\ block_number' = block_number + step
        /\ now' = now + step * BlockTime
        /\ last' = [op |-> "tick", err |-> "ok"]
        /\ UNCHANGED <<overflow_checks, owner, total_supply, balances,
                       lock_infos, allowances, govern, reward, additional,
                       elc, calls>>

NextGovern ==
    \/ GovTick
    \/ GovCommit(Govern_elcaim(GovSt), "elcaim")
    \/ GovCommit(Govern_update(GovSt), "update")
    \/ \E caller \in Accounts, lock_amount \in GovAmounts, new_k \in {7} :
          GovCommit(proposal_update_k(GovSt, caller, lock_amount, new_k),
                    "proposal_update_k")
    \/ \E caller \in Accounts, vote_amount \in GovAmounts,
          is_approve \in BOOLEAN :
          GovCommit(vote(GovSt, caller, vote_amount, is_approve), "vote")
    \/ \E caller \in Accounts :
          GovCommit(withdraw_lock_amount(GovSt, caller),
                    "withdraw_lock_amount")
    \/ \E caller \in Accounts, new_value \in {50} :
          GovCommit(set_proposal_needs(GovSt, caller, new_value),
                    "set_proposal_needs")
    \/ \E caller \in Accounts, new_value \in {1} :
          GovCommit(set_accounts_needs(GovSt, caller, new_value),
                    "set_accounts_needs")
    \/ \E caller \in Accounts, new_owner \in Accounts :
          GovCommit(Govern_transfer_ownership(GovSt, caller, new_owner),
                    "transfer_ownership")

SpecGovern == InitGovern /\ [][NextGovern]_vars

\* ---------------------------------------------------------------- the model
\* No call divides a wrapped value, so the integers of the model are exact.
BeyondNeverHappens == last.err # "beyond"

\* amount of user's record in store c, rolled forward with the balance to the
\* time of c's total tracker
RolledCoinday(c, user) ==
    LET coinday_info == get_coinday_info(c, user)
    IN  IF user \in DOMAIN c.coindays
        THEN coinday_info.amount
             + balances[user] * (c.total_coinday[2] - coinday_info.timestamp)
        ELSE 0

SumCoinday(c) == SumOver([u \in Accounts |-> RolledCoinday(c, u)], Accounts)

\* C1: for each reward stream the sum over the accounts of the coin-day amount,
\* rolled forward with the balance to the tracker's last timestamp, equals the
\* tracker's total_amount: the share a decrease removes from the account is the
\* very value subtracted from the tracker, so truncation leaves no drift.
C1_SumTracksTotal ==
    /\ SumCoinday(reward) = reward.total_coinday[1]
    /\ SumCoinday(additional) = additional.total_coinday[1]

\* C1 witness: a burn or transfer whose removed share was truncated has been
\* committed (a third of 1800000 coin-days is removed as 599999, which leaves a
\* total that is no multiple of 100).
C1_Witness ==
    /\ last.op \in {"burn", "transfer"}
    /\ last.err = "ok"
    /\ total_supply > 0
    /\ reward.total_coinday[1] % 100 # 0
    /\ additional.total_coinday[1] % 100 # 0

\* C2: every epoch of either award ledger has total_coinday > 0.
C2_EpochsHavePositiveCoinday ==
    /\ \A i \in 1..Len(reward.awards) : reward.awards[i].total_coinday > 0
    /\ \A i \in 1..Len(additional.awards) : additional.awards[i].total_coinday > 0


\* epochs of store c that user has not collected: length - last_index
Backlog(c, user) == awards_length(c) - get_coinday_info(c, user).last_index

\* the RELP storage and the stores it owns
storage ==
    <<total_supply, balances, lock_infos, allowances, reward, additional, elc>>

\* C5: a manual liquidation of an account with a backlog of 1 to 50 epochs is
\* the last of the ceil(B/50) calls that catch it up: the call succeeds and
\* leaves the account's last_index equal to the length of the ledger, in the
\* block-reward stream and in the increase-reward stream.
C5_LiquidationCatchesUp ==
    [][\A u \in Accounts :
        /\ (/\ Backlog(reward, u) \in 1..50
            /\ Commit(liquidate_block_reward(St, u), "liquidate_block_reward"))
           => (/\ last'.err = "ok"
               /\ Backlog(reward', u) = 0)
        /\ (/\ Backlog(additional, u) \in 1..50
            /\ balances[u] > 0
            /\ Commit(liquidate_increase_reward(St, u), "liquidate_increase_reward"))
           => (/\ last'.err = "ok"
               /\ Backlog(additional', u) = 0)]_vars

\* C6: one manual liquidation credits the account with the reward of the
\* epochs [idx, min(idx + 50, N)), each computed as the inline settle computes
\* it, whatever the size of the backlog.
C6_LiquidationCreditsCappedSum ==
    [][\A u \in Accounts :
        LET coinday_info == get_coinday_info(reward, u)
            index == coinday_info.last_index
            i == Min(index + 50, awards_length(reward))
            loop == settle_loop(reward, coinday_info, balances[u], index, i, 1)
        IN  (/\ Backlog(reward, u) >= 1
             /\ loop.status = "ok"
             /\ Commit(liquidate_block_reward(St, u), "liquidate_block_reward"))
            => reward_of(reward', u) = reward_of(reward, u) + loop.amount]_vars

\* C7: a manual liquidation of an account without backlog (last_index >= length)
\* fails and changes no storage: no reward is credited and no coin-day record
\* is written, in either stream.
C7_NoBacklogLiquidationFails ==
    [][\A u \in Accounts :
        /\ (/\ last'.op = "liquidate_block_reward"
            /\ Backlog(reward, u) <= 0
            /\ Commit(liquidate_block_reward(St, u), "liquidate_block_reward"))
           => (last'.err # "ok" /\ UNCHANGED storage)
        /\ (/\ last'.op = "liquidate_increase_reward"
            /\ Backlog(additional, u) <= 0
            /\ Commit(liquidate_increase_reward(St, u), "liquidate_increase_reward"))
           => (last'.err # "ok" /\ UNCHANGED storage)]_vars

\* C7 witness: a liquidation has failed on a non-empty block ledger that every
\* account had collected in full.
C7_Witness ==
    /\ last.op = "liquidate_block_reward"
    /\ last.err = "panic"
    /\ awards_length(reward) > 0
    /\ \A u \in Accounts : Backlog(reward, u) = 0

\* C8: once an account's last_index equals the length of the ledger, a settle
\* for it succeeds, credits no reward, mints no ELC and returns the checkpoint
\* (now, N), in both streams.
C8_SettleIdempotent ==
    \A u \in Accounts :
        /\ Backlog(reward, u) = 0 =>
              LET s == get_elp_reward(St, u)
              IN  /\ s.err = "ok"
                  /\ s.ret = <<now, awards_length(reward)>>
                  /\ s.reward.rewards = reward.rewards
                  /\ s.reward.coindays = reward.coindays
                  /\ s.elc = elc
        /\ Backlog(additional, u) = 0 =>
              LET s == get_elc_reward(St, u)
              IN  /\ s.err = "ok"
                  /\ s.ret = <<now, awards_length(additional)>>
                  /\ s.additional = additional
                  /\ s.elc = elc

\* C8 witness: a mint, burn or transfer has settled a holder over a non-empty
\* ledger and credited it, in both streams; its last_index is the length.
C8_Witness ==
    /\ last.op \in {"mint", "burn", "transfer"}
    /\ last.err = "ok"
    /\ \E u \in Accounts :
          /\ balances[u] > 0
          /\ awards_length(reward) > 0
          /\ awards_length(additional) > 0
          /\ Backlog(reward, u) = 0
          /\ Backlog(additional, u) = 0
          /\ reward_of(reward, u) > 0
          /\ reward_of(additional, u) > 0

\* the record an increase of user's coin-days writes to store c at time t
RolledRecord(c, user, t) ==
    LET coinday_info == get_coinday_info(c, user)
    IN  Coinday(coinday_info.amount + balances[user] * (t - coinday_info.timestamp),
                t, awards_length(c))

\* the record a decrease of user's coin-days by value writes to store c
DecreasedRecord(c, user, value, t) ==
    LET cur == RolledRecord(c, user, t).amount
        removed == MulDiv(cur, MulDiv(value, E8, balances[user]), E8)
    IN  Coinday(cur - removed, t, awards_length(c))

\* the reward a settle credits user in store c, with the balance it holds
PendingReward(c, user, scale) ==
    LET coinday_info == get_coinday_info(c, user)
    IN  settle_loop(c, coinday_info, balances[user], coinday_info.last_index,
                    awards_length(c), scale).amount

\* C9: a successful mint, burn or transfer at time t settles the reward and
\* rolls the coin-day record of each account whose balance changes with the
\* balance held before the call, and writes the new balance after that: a mint
\* to u leaves (amount + old_balance * (t - ts), t, N) in each stream.
C9_SettleAndRollBeforeBalance ==
    [][/\ \A caller \in Callers, u \in Accounts, amount \in Amounts :
            (/\ last'.op = "mint" /\ last'.err = "ok"
             /\ Commit(mint(St, caller, u, amount), "mint"))
            => /\ balances'[u] = balances[u] + amount
               /\ get_coinday_info(reward', u) = RolledRecord(reward, u, now)
               /\ get_coinday_info(additional', u) = RolledRecord(additional, u, now)
               /\ reward_of(reward', u)
                    = reward_of(reward, u) + PendingReward(reward, u, 1)
               /\ reward_of(additional', u)
                    = reward_of(additional, u) + PendingReward(additional, u, E8)
       /\ \A caller \in Callers, u \in Accounts, amount \in Amounts :
            (/\ last'.op = "burn" /\ last'.err = "ok"
             /\ Commit(burn(St, caller, u, amount), "burn"))
            => /\ balances'[u] = balances[u] - amount
               /\ get_coinday_info(reward', u)
                    = DecreasedRecord(reward, u, amount, now)
               /\ get_coinday_info(additional', u)
                    = DecreasedRecord(additional, u, amount, now)
               /\ reward_of(reward', u)
                    = reward_of(reward, u) + PendingReward(reward, u, 1)
               /\ reward_of(additional', u)
                    = reward_of(additional, u) + PendingReward(additional, u, E8)
       /\ \A from \in Accounts, to \in Accounts, value \in Amounts :
            (/\ last'.op = "transfer" /\ last'.err = "ok"
             /\ from # to
             /\ Commit(transfer(St, from, to, value), "transfer"))
            => /\ balances'[from] = balances[from] - value
               /\ balances'[to] = balances[to] + value
               /\ get_coinday_info(reward', from)
                    = DecreasedRecord(reward, from, value, now)
               /\ get_coinday_info(additional', from)
                    = DecreasedRecord(additional, from, value, now)
               /\ get_coinday_info(reward', to) = RolledRecord(reward, to, now)
               /\ get_coinday_info(additional', to) = RolledRecord(additional, to, now)
               /\ reward_of(reward', from)
                    = reward_of(reward, from) + PendingReward(reward, from, 1)
               /\ reward_of(reward', to)
                    = reward_of(reward, to) + PendingReward(reward, to, 1)]_vars

\* C9 witness: a mint to a holder after an epoch was sealed: its record holds
\* the coin-days of the balance it had before the mint, stamped now, at the
\* end of the ledger.
C9_Witness ==
    /\ last.op = "mint"
    /\ last.err = "ok"
    /\ now > 0
    /\ \E u \in Accounts :
          /\ balances[u] >= 2
          /\ u \in DOMAIN reward.coindays
          /\ reward.coindays[u] = Coinday((balances[u] - 1) * now, now, 1)
          /\ awards_length(reward) = 1

\* C3: an inline settle for an account fails with NeedLiquidate exactly when
\* the ledger is more than 5 epochs ahead of the account's last_index and the
\* account's balance is not 0, in both streams: an account without balance
\* never gets it, whatever its backlog, and neither does a backlog of 5 or less.
C3_NeedLiquidateExactly ==
    \A u \in Accounts :
        /\ (get_elp_reward(St, u).err = "NeedLiquidateIncreaseReward")
            <=> (Backlog(reward, u) > 5 /\ balances[u] # 0)
        /\ (get_elc_reward(St, u).err = "NeedLiquidateIncreaseReward")
            <=> (Backlog(additional, u) > 5 /\ balances[u] # 0)

\* C3 witness: a mint, burn or transfer has failed with NeedLiquidate for a
\* holder that is 6 epochs or more behind, while the account without balance
\* is at least as far behind.
C3_Witness ==
    /\ last.op \in {"mint", "burn", "transfer"}
    /\ last.err = "NeedLiquidateIncreaseReward"
    /\ \E u \in Accounts : Backlog(reward, u) > 5 /\ balances[u] # 0
    /\ \E u \in Accounts : Backlog(reward, u) > 5 /\ balances[u] = 0

\* the reward of epochs i .. n-1 of store c for a record and a balance, each
\* epoch truncated on its own:
\* floor((amount + b * (epoch.timestamp - ts)) * epoch.amount / epoch.total_coinday)
RECURSIVE SettleSum(_, _, _, _, _)
SettleSum(c, coinday_info, b, i, n) ==
    IF i >= n THEN 0
    ELSE LET epoch == c.awards[i + 1]
         IN  ((coinday_info.amount + b * (epoch.timestamp - coinday_info.timestamp))
                  * epoch.amount) \div epoch.total_coinday
             + SettleSum(c, coinday_info, b, i + 1, n)

\* the reward the block-reward store owes user
OwedElp(user) ==
    LET coinday_info == get_coinday_info(reward, user)
    IN  SettleSum(reward, coinday_info, balances[user], coinday_info.last_index,
                  awards_length(reward))

\* the step is a successful mint, burn or transfer that has settled user
SettledStep(user) ==
    /\ last'.err = "ok"
    /\ \/ /\ last'.op = "mint"
          /\ \E caller \in Callers, amount \in FnAmounts :
                Commit(mint(St, caller, user, amount), "mint")
       \/ /\ last'.op = "burn"
          /\ \E caller \in Callers, amount \in FnAmounts :
                Commit(burn(St, caller, user, amount), "burn")
       \/ /\ last'.op = "transfer"
          /\ \E from \in Accounts, to \in Accounts, value \in FnAmounts :
                /\ user \in {from, to}
                /\ Commit(transfer(St, from, to, value), "transfer")

\* C4: the inline settle of the block-reward stream adds to the account's
\* reward the sum over the epochs idx .. N-1 of
\* floor((amount + b * (epoch.timestamp - ts)) * epoch.amount / epoch.total_coinday),
\* each epoch truncated on its own; for the ledger
\* [{amount 100, total_coinday 1000, timestamp 100}], b = 50 and the record
\* (0, 0, 0) it adds 500.
C4_SettleCreditsEpochSum ==
    [][\A u \in Accounts :
        SettledStep(u)
        => /\ reward_of(reward', u) = reward_of(reward, u) + OwedElp(u)
           /\ (/\ reward.awards = <<Award(100, 1000, 100)>>
               /\ balances[u] = 50
               /\ get_coinday_info(reward, u) = Coinday(0, 0, 0))
              => reward_of(reward', u) = reward_of(reward, u) + 500]_vars

\* C4 witness: a burn or transfer has settled the holder of the scenario and
\* credited it 500.
C4_Witness ==
    /\ last.op \in {"burn", "transfer"}
    /\ last.err = "ok"
    /\ reward.awards = <<Award(100, 1000, 100)>>
    /\ reward_of(reward, Deployer) = 500

\* the step is a successful burn of value from user, or a successful transfer
\* of value from user to another account
DecreasedStep(user, value) ==
    /\ last'.err = "ok"
    /\ \/ /\ last'.op = "burn"
          /\ \E caller \in Callers : Commit(burn(St, caller, user, value), "burn")
       \/ /\ last'.op = "transfer"
          /\ \E to \in Accounts \ {user} :
                Commit(transfer(St, user, to, value), "transfer")

\* C10: a decrease by value of an account with balance b > 0 and rolled-forward
\* coin-days cur = amount + b * (t - ts) removes
\* removed = floor(cur * floor(value * 10^8 / b) / 10^8), stores
\* (cur - removed, t, N) in each stream and hands removed to the tracker of
\* the total; removed <= cur (value <= b), removed is at most the exact share
\* cur * value / b, and value = 30, b = 50, cur = 5000 removes 3000 and
\* stores 2000.
C10_DecreaseRemovesShare ==
    [][\A u \in Accounts, value \in FnAmounts :
        DecreasedStep(u, value)
        => LET b == balances[u]
               cur == RolledRecord(reward, u, now).amount
               removed == MulDiv(cur, MulDiv(value, E8, b), E8)
               total == reward.total_coinday
               cur_elc == RolledRecord(additional, u, now).amount
               removed_elc == MulDiv(cur_elc, MulDiv(value, E8, b), E8)
               total_elc == additional.total_coinday
           IN  /\ b > 0 /\ value <= b
               /\ get_coinday_info(reward', u)
                    = Coinday(cur - removed, now, awards_length(reward))
               /\ reward'.total_coinday
                    = <<total[1] + total_supply * (now - total[2]) - removed, now>>
               /\ get_coinday_info(additional', u)
                    = Coinday(cur_elc - removed_elc, now, awards_length(additional))
               /\ additional'.total_coinday
                    = <<total_elc[1] + total_supply * (now - total_elc[2])
                          - removed_elc, now>>
               /\ removed >= 0 /\ removed <= cur
               /\ removed <= (cur * value) \div b
               /\ value = b => removed = cur
               /\ (value = 30 /\ b = 50 /\ cur = 5000)
                  => (removed = 3000 /\ get_coinday_info(reward', u).amount = 2000)]_vars

\* C10 witness: the decrease of the scenario (value 30 of balance 50 with 5000
\* coin-days) has left 2000 coin-days in both streams.
C10_Witness ==
    /\ last.op = "burn"
    /\ last.err = "ok"
    /\ balances[Deployer] = 20
    /\ get_coinday_info(reward, Deployer).amount = 2000
    /\ get_coinday_info(additional, Deployer).amount = 2000
    /\ reward.total_coinday[1] = 2000

\* the total tracker of store c after a call at time now that removed decrease
\* coin-days, rolled forward with the supply held before the call
TrackerAfter(c, decrease) ==
    <<c.total_coinday[1] + total_supply * (now - c.total_coinday[2]) - decrease,
      now>>

\* C11: a successful mint, burn or transfer at time t leaves each stream's
\* total tracker at (total_amount + total_supply * (t - last_timestamp)
\* - decrease, t): decrease is the value decrease-coinday returns for the
\* debited account (0 for a mint) and total_supply is the supply before the
\* call changes it.
C11_TrackerRollsWithOldSupply ==
    [][/\ \A caller \in Callers, u \in Accounts, amount \in FnAmounts :
            (/\ last'.op = "mint" /\ last'.err = "ok"
             /\ Commit(mint(St, caller, u, amount), "mint"))
            => /\ reward'.total_coinday = TrackerAfter(reward, 0)
               /\ additional'.total_coinday = TrackerAfter(additional, 0)
               /\ total_supply' = total_supply + amount
       /\ \A caller \in Callers, u \in Accounts, amount \in FnAmounts :
            (/\ last'.op = "burn" /\ last'.err = "ok"
             /\ Commit(burn(St, caller, u, amount), "burn"))
            => /\ reward'.total_coinday
                    = TrackerAfter(reward,
                          decrease_coinday_elp(St, u, amount, now, 0).dec)
               /\ additional'.total_coinday
                    = TrackerAfter(additional,
                          decrease_coinday_elc(St, u, amount, now, 0).dec)
               /\ total_supply' = total_supply - amount
       /\ \A from \in Accounts, to \in Accounts, value \in FnAmounts :
            (/\ last'.op = "transfer" /\ last'.err = "ok"
             /\ Commit(transfer(St, from, to, value), "transfer"))
            => /\ reward'.total_coinday
                    = TrackerAfter(reward,
                          decrease_coinday_elp(St, from, value, now, 0).dec)
               /\ additional'.total_coinday
                    = TrackerAfter(additional,
                          decrease_coinday_elc(St, from, value, now, 0).dec)
               /\ total_supply' = total_supply]_vars

\* C11 witness: a mint of 30 to the holder of 50 whose tracker stood at
\* (17, 0): the tracker has grown by 50 * now, the coin-days of the supply
\* before the mint, and the supply is 80.
C11_Witness ==
    /\ last.op = "mint"
    /\ last.err = "ok"
    /\ total_supply = 80
    /\ reward.total_coinday = <<17 + 50 * now, now>>
    /\ additional.total_coinday = <<17 + 50 * now, now>>

\* C12 as stated: update_block_awards fails with IntervalTooShort whenever
\* now - last_daily_timestamp < interval, and the failed call changes nothing.
C12_ShortIntervalRejected ==
    [][\A caller \in Callers :
        (/\ last'.op = "update_block_awards"
         /\ now - reward.daily_award[2] < Interval
         /\ Commit(update_block_awards(St, caller), "update_block_awards"))
        => (last'.err = "IntervalTooShort" /\ UNCHANGED storage)]_vars

\* C12: while rELP is in supply, update_block_awards called by the owner fails
\* with IntervalTooShort whenever now - last_daily_timestamp < interval, and
\* the failed call leaves the award ledger, the total coin-day tracker, the
\* total-reward counter and the daily-award record as they were.  (Without
\* supply the call traps on its assert before it looks at the interval.)
C12_ShortIntervalRejectedWithSupply ==
    [][\A caller \in Callers :
        (/\ last'.op = "update_block_awards"
         /\ total_supply > 0
         /\ now - reward.daily_award[2] < Interval
         /\ Commit(update_block_awards(St, caller), "update_block_awards"))
        => /\ last'.err = "IntervalTooShort"
           /\ reward'.awards = reward.awards
           /\ reward'.total_coinday = reward.total_coinday
           /\ reward'.total_reward = reward.total_reward
           /\ reward'.daily_award = reward.daily_award
           /\ UNCHANGED storage]_vars

\* C12 witness: a call one millisecond before the interval is over, after an
\* earlier epoch was sealed, has failed with IntervalTooShort.
C12_Witness ==
    /\ last.op = "update_block_awards"
    /\ last.err = "IntervalTooShort"
    /\ total_supply > 0
    /\ awards_length(reward) >= 1
    /\ now - reward.daily_award[2] = Interval - 1

\* d_k: the daily amount d after k epochs, d_(k+1) = floor(d_k * 99 / 100)
RECURSIVE DecayedAmount(_, _)
DecayedAmount(d, k) ==
    IF k = 0 THEN d ELSE (DecayedAmount(d, k - 1) * 99) \div 100

\* d_0 + d_1 + ... + d_(e-1)
RECURSIVE PeriodReward(_, _)
PeriodReward(d, e) ==
    IF e = 0 THEN 0 ELSE PeriodReward(d, e - 1) + DecayedAmount(d, e - 1)

\* epochs_elapsed of a call of update_block_awards in the current state
EpochsElapsed == (now - reward.daily_award[2]) \div Interval

\* the step is a successful update_block_awards
SealedStep ==
    /\ last'.op = "update_block_awards"
    /\ last'.err = "ok"
    /\ \E caller \in Callers :
          Commit(update_block_awards(St, caller), "update_block_awards")

\* C13: a successful seal with e = epochs_elapsed >= 1 and daily amount d_0
\* emits the period reward d_0 + d_1 + ... + d_(e-1) and stores the daily
\* amount d_e, with d_(k+1) = floor(d_k * 99 / 100); e = 2 and d_0 = 100 give
\* the period reward 199 and the daily amount 98.
C13_SealEmitsDecayingSum ==
    [][SealedStep
       => LET e == EpochsElapsed
              d0 == reward.daily_award[1]
              epoch == reward'.awards[Len(reward'.awards)]
          IN  /\ e >= 1
              /\ epoch.amount = PeriodReward(d0, e)
              /\ reward'.total_reward = reward.total_reward + PeriodReward(d0, e)
              /\ reward'.daily_award[1] = DecayedAmount(d0, e)
              /\ (e = 2 /\ d0 = 100)
                 => (epoch.amount = 199 /\ reward'.daily_award[1] = 98)]_vars

\* C13 witness: the first seal came two intervals after the first mint: the
\* epoch holds 199 and the daily amount is 98.
C13_Witness ==
    /\ last.op = "update_block_awards"
    /\ last.err = "ok"
    /\ awards_length(reward) = 1
    /\ get_award(reward, 0).amount = 199
    /\ reward.daily_award[1] = 98

\* C14: a successful seal advances last_daily_timestamp by exactly
\* epochs_elapsed * interval, not to now: after it
\* 0 <= now - last_daily_timestamp < interval and a second seal at the same
\* timestamp fails with IntervalTooShort; no other call moves
\* last_daily_timestamp, but for the mint that starts the award clock, so it
\* stays on the grid start + k * interval.
C14_SealKeepsGrid ==
    [][/\ SealedStep
          => LET e == EpochsElapsed
             IN  /\ e >= 1
                 /\ reward'.daily_award[2] = reward.daily_award[2] + e * Interval
                 /\ (reward'.daily_award[2] - reward.daily_award[2]) % Interval = 0
                 /\ 0 <= now' - reward'.daily_award[2]
                 /\ now' - reward'.daily_award[2] < Interval
                 /\ \A caller \in Callers :
                       (update_block_awards(St, caller).err)' = "IntervalTooShort"
       /\ (last'.op # "update_block_awards" \/ last'.err # "ok")
          => \/ reward'.daily_award[2] = reward.daily_award[2]
             \/ /\ last'.op = "mint"
                /\ total_supply = 0
                /\ awards_length(reward) = 0
                /\ reward'.daily_award[2] = now]_vars

\* C14 witness: an epoch was sealed two milliseconds before the second
\* interval was over: the award clock stands an interval after its start, not
\* at now.
C14_Witness ==
    /\ last.op = "update_block_awards"
    /\ last.err = "ok"
    /\ now - reward.daily_award[2] = Interval - 2

\* C15: a successful seal appends exactly one epoch
\* (period_amount, new_total_coinday, now) to the award ledger, whatever
\* epochs_elapsed is, sets the total tracker to
\* (old_total + total_supply * (now - last_timestamp), now), adds the period
\* reward to the total-reward counter and leaves every account's balance,
\* coin-day record and reward record as they were.
C15_SealAppendsOneEpoch ==
    [][SealedStep
       => LET period_amount == PeriodReward(reward.daily_award[1], EpochsElapsed)
              new_total_coinday ==
                  reward.total_coinday[1]
                  + total_supply * (now - reward.total_coinday[2])
          IN  /\ reward'.awards
                   = Append(reward.awards,
                            Award(period_amount, new_total_coinday, now))
              /\ reward'.total_coinday = <<new_total_coinday, now>>
              /\ reward'.total_reward = reward.total_reward + period_amount
              /\ balances' = balances
              /\ total_supply' = total_supply
              /\ reward'.coindays = reward.coindays
              /\ reward'.rewards = reward.rewards
              /\ additional' = additional
              /\ elc' = elc]_vars

\* C15 witness: three intervals went by before the first seal: the ledger
\* holds the one epoch (100 + 99 + 98, coin-days of the supply, now), and the
\* holders' records are those their mints wrote.
C15_Witness ==
    /\ last.op = "update_block_awards"
    /\ last.err = "ok"
    /\ reward.awards = <<Award(297, reward.total_coinday[1], now)>>
    /\ reward.total_coinday = <<total_supply * now, now>>
    /\ \E u \in Accounts :
          /\ balances[u] > 0
          /\ get_coinday_info(reward, u) = Coinday(0, 0, 0)

PassesBurnGuards(s, user, amount) ==
    /\ ~(s.total_supply < amount)
    /\ ~ULt(balance_of(s, user) - lock_info_of(s, user)[2], amount)

\* a transfer of value from the account from passes its free-balance check
PassesTransferGuards(s, from, value) ==
    ~ULt(balance_of(s, from) - lock_info_of(s, from)[2], value)

\* the call has reached decrease-coinday and divided by a balance of 0
DividesByZero(s, user) ==
    /\ s.err = "panic"
    /\ balance_of(s, user) = 0
    /\ get_elc_reward(St, user).err = "ok"

\* C17: in every reachable state a burn or a transfer that passes its entry
\* guards, one of value 0 included, computes its decrease against a balance
\* > 0: the division by the balance never divides by zero.
C17_DecreaseNeverOnZeroBalance ==
    \A u \in Accounts, value \in {0} \cup Amounts :
        /\ PassesBurnGuards(St, u, value)
           => /\ balance_of(St, u) > 0
              /\ \A caller \in Callers : ~DividesByZero(burn(St, caller, u, value), u)
        /\ PassesTransferGuards(St, u, value)
           => /\ balance_of(St, u) > 0
              /\ \A to \in Accounts : ~DividesByZero(transfer(St, u, to, value), u)

\* epochs the loop of a successful inline settle for user visits in store c:
\* for i in index..length
SettleIterations(c, user) ==
    Max(0, awards_length(c) - get_coinday_info(c, user).last_index)

\* C18: the inline settle of a mint, burn or transfer iterates over at most 5
\* epochs of the award ledger, in both streams and for every account, accounts
\* without balance and accounts that were never touched included.
C18_InlineSettleVisitsAtMostFive ==
    [][\A u \in Accounts :
        SettledStep(u)
        => /\ SettleIterations(reward, u) <= 5
           /\ SettleIterations(additional, u) <= 5]_vars

\* C19: every call that credits the increase reward of an account with r > 0
\* adds r to the account's reward record and mints exactly r ELC to the
\* account, and a call that credits nothing mints nothing, be it an inline
\* settle or a manual liquidation: the ELC the engine has minted to an account
\* is the increase reward credited to it.
C19_ElcCreditIsMinted ==
    [][\A u \in Accounts :
        LET r == reward_of(additional', u) - reward_of(additional, u)
        IN  /\ r >= 0
            /\ elc'.balances[u] = elc.balances[u] + r]_vars

\* the storage with the block-reward store holding what the increase-reward
\* store holds: the same ledger, coin-day records, rewards and totals
Mirrored ==
    [St EXCEPT !.reward = [@ EXCEPT !.awards = additional.awards,
                                    !.coindays = additional.coindays,
                                    !.rewards = additional.rewards,
                                    !.total_coinday = additional.total_coinday,
                                    !.total_reward = additional.total_reward]]

\* C20: on the same award ledger, coin-day record and balance, get_elc_reward
\* and get_elp_reward end alike, credit the same reward and return the same
\* checkpoint; the increase-reward settle mints the reward in addition.
C20_PipelinesAgree ==
    \A u \in Accounts :
        LET s_elc == get_elc_reward(St, u)
            s_elp == get_elp_reward(Mirrored, u)
        IN  /\ s_elc.err = s_elp.err
            /\ s_elc.err = "ok"
               => /\ s_elc.ret = s_elp.ret
                  /\ reward_of(s_elc.additional, u) = reward_of(s_elp.reward, u)
                  /\ s_elc.elc.balances[u]
                       = elc.balances[u] + reward_of(s_elc.additional, u)
                                         - reward_of(additional, u)

\* C21: every stored coin-day record of a stream has last_index <= the length
\* of that stream's award ledger, after any sequence of mint, burn, transfer,
\* seal and manual-liquidation calls.
C21_LastIndexWithinLedger ==
    /\ \A u \in DOMAIN reward.coindays :
          reward.coindays[u].last_index <= awards_length(reward)
    /\ \A u \in DOMAIN additional.coindays :
          additional.coindays[u].last_index <= awards_length(additional)

\* C22: the timestamp of an account's stored coin-day record never goes back
\* when a mint, burn, transfer or manual liquidation writes the record, in
\* either stream.
C22_RecordTimestampMonotone ==
    [][/\ \A u \in DOMAIN reward.coindays :
            reward'.coindays[u].timestamp >= reward.coindays[u].timestamp
       /\ \A u \in DOMAIN additional.coindays :
            additional'.coindays[u].timestamp
                >= additional.coindays[u].timestamp]_vars

LedgerExtends(c, d) ==
    /\ awards_length(d) >= awards_length(c)
    /\ \A i \in 0..(awards_length(c) - 1) : get_award(d, i) = get_award(c, i)

C24_LedgerAppendOnly ==
    [][/\ LedgerExtends(reward, reward')
       /\ LedgerExtends(additional, additional')
       /\ awards_length(reward') # awards_length(reward)
            => last'.op = "update_block_awards"
       /\ awards_length(additional') # awards_length(additional)
            => last'.op = "update_increase_awards"]_vars

\* both ledgers hold an epoch and a second epoch has just been sealed after
\* the first of the block-reward ledger
C24_Witness ==
    /\ last.op = "update_block_awards"
    /\ last.err = "ok"
    /\ awards_length(reward) = 2
    /\ awards_length(additional) >= 1

\* C25: update_awards called by the owner adds one epoch at index length()
\* when total_coinday > 0, and fails, leaving the ledger as it was, when
\* total_coinday = 0.
C25_AppendRefusesZeroCoinday ==
    [][(last'.op = "update_awards" /\ last'.caller = owner)
         => IF last'.args[2] > 0
            THEN /\ last'.err = "ok"
                 /\ awards_length(reward') = awards_length(reward) + 1
                 /\ LedgerExtends(reward, reward')
                 /\ get_award(reward', awards_length(reward))
                      = Award(last'.args[1], last'.args[2], last'.args[3])
            ELSE /\ last'.err # "ok"
                 /\ reward'.awards = reward.awards]_vars

\* C26: get_award(index) returns the epoch stored at index when
\* index < awards_length(), and fails with OutOfRange, changing nothing, when
\* index >= awards_length().
C26_GetAwardOutOfRange ==
    [][last'.op = "get_award"
         => /\ reward' = reward
            /\ owner' = owner
            /\ IF last'.args[1] < awards_length(reward)
               THEN /\ last'.err = "ok"
                    /\ last'.ret = get_award(reward, last'.args[1])
               ELSE last'.err = "OutOfRange"]_vars

\* C27: after update_coindays(u, a, t, i) by the owner, get_coinday_info(u)
\* is exactly (a, t, i) whatever was stored before, and the records of the
\* other accounts are as they were; get_coinday_info of an account never set
\* returns (0, now, 0), and get_coinday_info never fails nor writes.
C27_CoindayStoreGetSet ==
    [][/\ (last'.op = "update_coindays" /\ last'.caller = owner)
            => /\ last'.err = "ok"
               /\ get_coinday_info(reward', last'.args[1])
                    = Coinday(last'.args[2], last'.args[3], last'.args[4])
               /\ DOMAIN reward'.coindays
                    = DOMAIN reward.coindays \cup {last'.args[1]}
               /\ \A v \in DOMAIN reward.coindays \ {last'.args[1]} :
                     reward'.coindays[v] = reward.coindays[v]
       /\ last'.op = "get_coinday_info"
            => /\ last'.err = "ok"
               /\ reward' = reward
               /\ last'.ret = IF last'.args[1] \in DOMAIN reward.coindays
                              THEN reward.coindays[last'.args[1]]
                              ELSE Coinday(0, now, 0)]_vars

\* the record the constructor stored for the deployer has been replaced
\* while no record was ever stored for the other account, at a later time
C27_Witness ==
    /\ last.op = "update_coindays"
    /\ last.err = "ok"
    /\ now > 0
    /\ get_coinday_info(reward, Deployer) = Coinday(1, now, 1)
    /\ DOMAIN reward.coindays = {Deployer}
    /\ get_coinday_info(reward, "a2") = Coinday(0, now, 0)

\* the messages of Reward that write its storage
RwMutating ==
    {"update_total_reward", "update_rewards", "update_total_coinday",
     "update_coindays", "update_awards", "update_daily_award",
     "transfer_ownership"}

\* what a message leaves when it refuses its caller: nothing written
RwRefused == [RwSt EXCEPT !.err = "OnlyOwnerAccess"]

\* C28: every mutating message of Reward called by an account other than the
\* current owner returns OnlyOwnerAccess and writes nothing; called by the
\* owner it is accepted; transfer_ownership(new) makes `new` the owner, so
\* that afterwards the previous owner is refused and only `new` is accepted.
C28_OwnerGated ==
    [][/\ \A caller \in Accounts \ {owner}, user \in Accounts,
             v \in RwValues, i \in RwValues :
            /\ Reward_update_total_reward(RwSt, caller, v) = RwRefused
            /\ Reward_update_rewards(RwSt, caller, user, v) = RwRefused
            /\ Reward_update_total_coinday(RwSt, caller, <<v, now>>)
                 = RwRefused
            /\ Reward_update_coindays(RwSt, caller, user, v, now, i)
                 = RwRefused
            /\ Reward_update_awards(RwSt, caller, DailyAmount, v, now)
                 = RwRefused
            /\ Reward_update_daily_award(RwSt, caller, <<v, now>>) = RwRefused
            /\ Reward_transfer_ownership(RwSt, caller, user) = RwRefused
       /\ (last'.op \in RwMutating /\ last'.caller # owner)
            => /\ last'.err = "OnlyOwnerAccess"
               /\ reward' = reward
               /\ owner' = owner
       /\ (last'.op \in RwMutating /\ last'.caller = owner)
            => last'.err = "ok"
       /\ (last'.op = "transfer_ownership" /\ last'.caller = owner)
            => /\ owner' = last'.args[1]
               /\ reward' = reward]_vars

\* the ownership has moved to the other account and a mutating message of
\* the previous owner has been refused
C28_Witness ==
    /\ last.op \in RwMutating
    /\ last.caller = Deployer
    /\ last.err = "OnlyOwnerAccess"
    /\ owner = "a2"

\* balances after exactly value has moved from `from` to `to`
Moved(b, from, to, value) ==
    IF from = to THEN b
    ELSE [b EXCEPT ![from] = @ - value, ![to] = @ + value]

\* C29: ELC transfer_from(from, to, v) by spender s returns
\* InsufficientAllowance when allowance(from, s) < v, otherwise
\* InsufficientBalance when balance(from) < v, both leaving balances and
\* allowances as they were; otherwise it succeeds, moves exactly v from `from`
\* to `to` and lowers allowance(from, s) by exactly v.
C29_TransferFromChecksAllowanceFirst ==
    [][last'.op = "transfer_from"
         => LET s == last'.caller
                from == last'.args[1]
                to == last'.args[2]
                v == last'.args[3]
            IN  IF elc.allowances[<<from, s>>] < v
                THEN last'.err = "InsufficientAllowance" /\ elc' = elc
                ELSE IF elc.balances[from] < v
                THEN last'.err = "InsufficientBalance" /\ elc' = elc
                ELSE /\ last'.err = "ok"
                     /\ elc'.balances = Moved(elc.balances, from, to, v)
                     /\ elc'.allowances =
                          [elc.allowances EXCEPT ![<<from, s>>] = @ - v]
                     /\ elc'.total_supply = elc.total_supply]_vars

\* C30: after any sequence of ELC mint, burn, transfer and transfer_from,
\* total_supply is the sum of the balances.  A successful mint adds its amount
\* to the balance of the user and to total_supply, a successful burn takes it
\* from both, a transfer leaves total_supply as it was, and a failed call
\* changes neither balances nor total_supply.
C30_SupplyIsSumOfBalances ==
    [][/\ elc'.total_supply = SumOver(elc'.balances, Accounts)
       /\ last'.err # "ok"
            => /\ elc'.balances = elc.balances
               /\ elc'.total_supply = elc.total_supply
       /\ (last'.op = "mint" /\ last'.err = "ok")
            => /\ elc'.balances = [elc.balances EXCEPT
                                      ![last'.args[1]] = @ + last'.args[2]]
               /\ elc'.total_supply = elc.total_supply + last'.args[2]
       /\ (last'.op = "burn" /\ last'.err = "ok")
            => /\ elc'.balances = [elc.balances EXCEPT
                                      ![last'.args[1]] = @ - last'.args[2]]
               /\ elc'.total_supply = elc.total_supply - last'.args[2]
       /\ (last'.op \in {"transfer", "transfer_from"} /\ last'.err = "ok")
            => elc'.total_supply = elc.total_supply]_vars

\* the epochs of store c that the next settle or manual liquidation of user
\* processes: the whole backlog for a settle that is let through, the first
\* LiquidateLimit of it for a liquidation
\* C31: every epoch a settle or a manual liquidation processes for an account
\* is stamped no earlier than the account's record, the default record of an
\* account without a stored one included, so that
\* epoch.timestamp - record.timestamp never underflows.
C31_EpochNotOlderThanRecord ==
    LET \* the epochs a manual liquidation or an inline settle goes through
        ProcessedEpochs(c, user, balance) ==
            LET index == get_coinday_info(c, user).last_index
                length == awards_length(c)
            IN  (index..(Min(index + LiquidateLimit, length) - 1))
                    \cup (IF length - index > InlineLimit /\ balance # 0
                          THEN {}
                          ELSE index..(length - 1))
    IN  \A u \in Accounts :
            /\ \A i \in ProcessedEpochs(reward, u, balances[u]) :
                  get_award(reward, i).timestamp
                      >= get_coinday_info(reward, u).timestamp
            /\ \A i \in ProcessedEpochs(additional, u, balances[u]) :
                  get_award(additional, i).timestamp
                      >= get_coinday_info(additional, u).timestamp

\* C32: in the block-reward stream the rewards recorded for the accounts add
\* up to at most total_reward, the sum of the amounts of the epochs sealed.
C32_RewardsWithinEmission ==
    SumOver(reward.rewards, Accounts) <= reward.total_reward

\* C33: liquidate_increase_reward changes the increase-reward stream only:
\* the coin-day records, rewards, award ledger and total tracker of the
\* block-reward stream are as they were before the call.
C33_IncreaseLiquidationKeepsBlockStream ==
    [][last'.op = "liquidate_increase_reward" => reward' = reward]_vars

\* C34: a manual liquidation that returns normally for an account with a
\* backlog advances the last_index of the account in the stream liquidated
\* by min(50, backlog), a computed reward of zero included.
C34_LiquidationAdvancesIndex ==
    [][\A u \in Accounts :
          /\ (/\ last'.op = "liquidate_block_reward"
              /\ last'.err = "ok"
              /\ Backlog(reward, u) > 0
              /\ Commit(liquidate_block_reward(St, u),
                        "liquidate_block_reward"))
                => get_coinday_info(reward', u).last_index
                     = get_coinday_info(reward, u).last_index
                         + Min(LiquidateLimit, Backlog(reward, u))
          /\ (/\ last'.op = "liquidate_increase_reward"
              /\ last'.err = "ok"
              /\ Backlog(additional, u) > 0
              /\ Commit(liquidate_increase_reward(St, u),
                        "liquidate_increase_reward"))
                => get_coinday_info(additional', u).last_index
                     = get_coinday_info(additional, u).last_index
                         + Min(LiquidateLimit, Backlog(additional, u))]_vars

\* C35: a transfer of an account to itself, of a value within its free
\* balance, leaves the balance of the account and the total supply as they
\* were, and leaves the coin-days of the account, rolled forward to now, as
\* they were in both streams.
C35_SelfTransferKeepsCoindays ==
    [][LET RolledToNow(r, b) == r.amount + b * (now - r.timestamp)
       IN  \A u \in Accounts, value \in FnAmounts :
              (/\ last'.op = "transfer"
               /\ last'.err = "ok"
               /\ Commit(transfer(St, u, u, value), "transfer"))
              => /\ balances' = balances
                 /\ total_supply' = total_supply
                 /\ RolledToNow(get_coinday_info(reward', u), balances'[u])
                      = RolledToNow(get_coinday_info(reward, u), balances[u])
                 /\ RolledToNow(get_coinday_info(additional', u), balances'[u])
                      = RolledToNow(get_coinday_info(additional, u),
                                    balances[u])]_vars

\* C36: in every state RELP reaches by mint, burn, transfer, transfer_from
\* and approve the total supply is the sum of the balances, and a call that
\* ends with InvalidAmount, InsufficientSupply, InsufficientFreeBalance,
\* InsufficientAllowance or OnlyOwnerAccess has written no balance, no
\* allowance and no supply by the time it fails.
C36_SupplyIsSumOfBalances ==
    LET TokenErrors ==
            {"InvalidAmount", "InsufficientSupply", "InsufficientFreeBalance",
             "InsufficientAllowance", "OnlyOwnerAccess"}
        \* the token storage of the record s is the one the call found
        TokenUntouched(s) ==
            /\ s.balances = balances
            /\ s.allowances = allowances
            /\ s.total_supply = total_supply
        Refused(s) == s.err \in TokenErrors => TokenUntouched(s)
    IN  /\ total_supply = SumOver(balances, Accounts)
        /\ \A caller \in Accounts, user \in Accounts, to \in Accounts,
              amount \in TokAmounts :
             /\ Refused(mint(St, caller, user, amount))
             /\ Refused(burn(St, caller, user, amount))
             /\ Refused(transfer(St, caller, to, amount))
             /\ Refused(transfer_from(St, caller, user, to, amount))

\* a transfer_from went through and used up what its caller was allowed
C36_Witness ==
    /\ last.op = "transfer_from"
    /\ last.err = "ok"
    /\ total_supply = 1
    /\ balances["a1"] = 0
    /\ balances["a2"] = 1
    /\ allowances[<<"a1", "a2">>] = 0

\* C37: a settle of the block-reward stream sets the daily-award timestamp
\* to now, keeping the daily amount, exactly when the RELP total supply is 0
\* and the timestamp still equals the deploy time; in every other state the
\* settle, and the mint, burn or transfer that runs it, leaves the daily-award
\* record as it was.
C37_EmissionStartsAtFirstMint ==
    [][LET DailyAwardAfterSettle ==
               IF total_supply = 0
                  /\ reward.deploy_time = reward.daily_award[2]
               THEN <<reward.daily_award[1], now>>
               ELSE reward.daily_award
       IN  /\ \A user \in Accounts :
                get_elp_reward(St, user).err = "ok"
                 => get_elp_reward(St, user).reward.daily_award
                      = DailyAwardAfterSettle
           /\ (last'.op \in {"mint", "burn", "transfer"} /\ last'.err = "ok")
                => reward'.daily_award = DailyAwardAfterSettle
      ]_vars

\* a first mint after the deploy time has started the award clock
C37_Witness ==
    /\ last.op = "mint"
    /\ last.err = "ok"
    /\ total_supply = 1
    /\ reward.deploy_time = 0
    /\ reward.daily_award = <<DailyAmount, Interval>>

\* C38: in every state the messages of Govern reach, the locked amount of
\* every account is at most its balance, so balance - lock_balance in RELP
\* transfer and burn does not underflow; a proposer who locked tokens for a
\* proposal and then votes on it is among the cases.
C38_LockWithinBalance ==
    \A user \in Accounts : lock_infos[user][2] <= balances[user]

\* C39: a vote succeeds only in the voting period of the proposal
\* (vote_begin <= block < end), and a vote of an account that has voted on
\* the proposal, at whatever block of the period it did, fails with
\* AlreadyVoted and leaves total_account and both tallies as they were.
C39_OneVotePerAccount ==
    LET InVotingPeriod ==
            /\ govern.proposal.type_ = 1
            /\ govern.proposal.vote_begin <= block_number
            /\ block_number < govern.proposal.end
        \* user has voted on the proposal: votes are the only lock records
        \* written at or after vote_begin, the proposer's is written at begin
        HasVoted(user) ==
            /\ govern.proposal.type_ = 1
            /\ lock_infos[user][1] >= govern.proposal.vote_begin
    IN  \A caller \in Accounts, vote_amount \in GovAmounts,
           is_approve \in BOOLEAN :
            LET s == vote(GovSt, caller, vote_amount, is_approve)
            IN  /\ s.err = "ok" => InVotingPeriod
                /\ (InVotingPeriod /\ HasVoted(caller))
                     => /\ s.err = "AlreadyVoted"
                        /\ s.govern.total_account = govern.total_account
                        /\ s.govern.total_approve_vote
                             = govern.total_approve_vote
                        /\ s.govern.total_against_vote
                             = govern.total_against_vote

\* C40: after every call of elcaim() that returns, last_update_elcaim is at
\* most the block time, the price has been compounded by (100000 + k) /
\* 100000, truncating, once for every update interval gone by since
\* last_update_elcaim, and last_update_elcaim has advanced by exactly those
\* intervals.
C40_ElcaimKeepsPace ==
    [][LET ElapsedIntervals ==
               (now - govern.last_update_elcaim) \div ElcaimInterval
       IN  (last'.op = "elcaim" /\ last'.err = "ok")
            => /\ govern'.last_update_elcaim <= now
               /\ govern'.elcaim
                    = elcaim_loop(govern.elcaim, govern.k, 0, ElapsedIntervals)
               /\ govern'.last_update_elcaim
                    = govern.last_update_elcaim
                        + ElapsedIntervals * ElcaimInterval
      ]_vars

====
